---- MODULE Spec2Model ----
(***************************************************************************)
(* State-machine model of the solar-system renderer (ssg.renderer.ts, the  *)
(* later variant with orbit controls, look-at and ring support), its       *)
(* settings bus (SettingsManagerImpl), the Orbiter and the numeric helpers *)
(* of ssg.utils.ts.                                                        *)
(*                                                                         *)
(* Numbers.  Every JavaScript number is an IEEE-754 double.  The model     *)
(* keeps the shape of that arithmetic at a reduced width: a value is an    *)
(* integer count of quanta, and the result of every addition and           *)
(* multiplication is rounded to MantissaBits significant bits, ties to     *)
(* even (FRound).  Angles are counted in quanta of 1/AngleUnit degree,     *)
(* times in seconds.                                                       *)
(***************************************************************************)
EXTENDS Integers, Sequences, FiniteSets, TLC

\* ------------------------------------------------------------------ bounds
MaxTime == 1
MaxOrbitTime == 3
MaxFrameTime == 2
MaxBgTime == 2
MaxBgTasks == 1
MantissaBits == 9
AngleUnit == 4

\* ------------------------------------------------------- number model
Abs(x) == IF x < 0 THEN -x ELSE x

Pow2(n) == 2 ^ n

\* Distance between neighbouring representable magnitudes around m.
RECURSIVE Spacing(_)
Spacing(m) == IF m < Pow2(MantissaBits) THEN 1 ELSE 2 * Spacing(m \div 2)

\* Round to nearest representable value, ties to even significand.
FRound(x) ==
    LET m  == Abs(x)
        s  == Spacing(m)
        lo == (m \div s) * s
        r  == m - lo
        up == lo + s
        q  == IF 2 * r < s THEN lo
              ELSE IF 2 * r > s THEN up
              ELSE IF (lo \div s) % 2 = 0 THEN lo ELSE up
    IN  IF x < 0 THEN -q ELSE q

FAdd(a, b) == FRound(a + b)

FSub(a, b) == FRound(a - b)

FMul(a, b) == FRound(a * b)

\* JavaScript's % : the remainder takes the sign of the dividend; exact.
JsRem(a, n) == IF a >= 0 THEN a % n ELSE -((-a) % n)

FullCircle == 360 * AngleUnit

\* A normalisation that pins an angle to the nearest end of the range.
ClampDegreesSaturate(angle) ==
    IF angle < 0 THEN 0 ELSE IF angle >= FullCircle THEN FullCircle - 1 ELSE angle

\* Utils.clampDegrees
clampDegrees(angle) ==
    LET retval == JsRem(angle, FullCircle)
    IN  IF retval < 0 THEN FAdd(retval, FullCircle) ELSE retval

\* Utils.FloatingPointEqualityEpsilon = Number.EPSILON * 100 = 25 / 2^50.
\* EpsilonTimes(d) is the largest integer not above epsilon * d.
EpsilonTimes(d) == ((25 * d) \div Pow2(25)) \div Pow2(25)

Max2(a, b) == IF a >= b THEN a ELSE b

Min2(a, b) == IF a <= b THEN a ELSE b

\* Utils.FloatEQDivisor
FloatEQDivisor(value1, value2) ==
    LET d0 == Max2(value1, value2)
        divisor == IF d0 = 0 THEN Min2(value1, value2) ELSE d0
    IN  IF divisor < 0 THEN -divisor ELSE divisor

\* Utils.FloatEQ on finite values (SimpleFloatEQ returns false for them).
\* A zero divisor makes the quotient 0/0 = NaN, and NaN <= epsilon is false.
FloatEQ(value1, value2) ==
    LET divisor == FloatEQDivisor(value1, value2)
    IN  IF divisor = 0 THEN FALSE
        ELSE Abs(value1 - value2) <= EpsilonTimes(divisor)

FloatNE(value1, value2) == ~FloatEQ(value1, value2)

\* ------------------------------------------------------------ humanTime
\* scaleFactors: the factor from each unit to the next, and the unit's name
\* with its singular and plural suffixes ("second" is the starting unit).
ScaleFactors == << 60, 60, 24, 365, 10, 10 >>

Units == << "second", "minute", "hour", "day", "year", "decade", "centur" >>

SingularSuffix(scaled) == IF scaled = 6 THEN "y" ELSE ""

PluralSuffix(scaled) == IF scaled = 6 THEN "ies" ELSE "s"

\* The loop over scaleFactors: checkScale divides retTime = num / den by the
\* next factor while retTime > factor, and stops at the first that is not.
RECURSIVE CheckScales(_, _, _)
CheckScales(num, den, scaled) ==
    IF scaled < Len(ScaleFactors) /\ num > ScaleFactors[scaled + 1] * den
    THEN CheckScales(num, den * ScaleFactors[scaled + 1], scaled + 1)
    ELSE [num |-> num, den |-> den, scaled |-> scaled]

\* Number.prototype.toFixed(3) of num / den >= 0, in thousandths: the nearest
\* thousandth, the larger one on a tie.
ToFixed3(num, den) == (2000 * num + den) \div (2 * den)

\* Utils.humanTime(totalSeconds) for a whole number of seconds: the text
\* `${retTime.toFixed(3)} ${retUnit}${suffix}`, as its parts. The sign is
\* computed and the template does not use it; retTime is the magnitude, so
\* the number printed carries no minus either.
humanTime(totalSeconds) ==
    LET sign == IF totalSeconds < 0 THEN "-" ELSE ""
        r == CheckScales(Abs(totalSeconds), 1, 0)
        \* FloatEQ(retTime, 1, 0.0005): |retTime - 1| / max(retTime, 1) <= 0.0005
        one == Abs(r.num - r.den) * 2000 <= Max2(r.num, r.den)
    IN  [minus |-> FALSE,
         thousandths |-> ToFixed3(r.num, r.den),
         unit |-> Units[r.scaled + 1],
         suffix |-> IF one THEN SingularSuffix(r.scaled)
                    ELSE PluralSuffix(r.scaled)]

\* The variant of humanTime without magnitude: retTime = totalSeconds, the
\* starting unit is "seconds" and the suffix is "" only when retTime == 1.
humanTimeSigned(totalSeconds) ==
    LET r == IF totalSeconds < 0
             THEN [num |-> totalSeconds, den |-> 1, scaled |-> 0]
             ELSE CheckScales(totalSeconds, 1, 0)
        units == << "seconds", "minute", "hour", "day", "year", "decade",
                    "century" >>
    IN  [minus |-> totalSeconds < 0,
         thousandths |-> ToFixed3(Abs(r.num), r.den),
         unit |-> units[r.scaled + 1],
         suffix |-> IF r.num = r.den THEN "" ELSE "s"]

\* Utils.FloatLT on finite values: (value1 - value2) / divisor < -epsilon;
\* with a zero divisor the quotient is NaN and the comparison false.
FloatLT(value1, value2) ==
    LET divisor == FloatEQDivisor(value1, value2)
    IN  IF divisor = 0 THEN FALSE
        ELSE value2 - value1 > EpsilonTimes(divisor)

\* Utils.FloatGT on finite values: (value1 - value2) / divisor > epsilon.
FloatGT(value1, value2) ==
    LET divisor == FloatEQDivisor(value1, value2)
    IN  IF divisor = 0 THEN FALSE
        ELSE value1 - value2 > EpsilonTimes(divisor)

\* ---------------------------------------------------------- celestial tree
\* A system description: the bodies in pre-order, body 1 the root; Parent and
\* ChildObjects are what the CelestialObject constructor links.
NoRing == [RingInnerRadius |-> 0, RingColor |-> "none"]

Body(name, parent, children, sma, vel, init, radius, star, ring) ==
    [Name |-> name, ParentObject |-> parent, ChildObjects |-> children,
     OrbitalSemiMajorAxis |-> sma, OrbitalVelocity |-> vel,
     InitialOrbitalAngle |-> init, ObjectRadius |-> radius, IsStar |-> star,
     RingInnerRadius |-> ring.RingInnerRadius, RingColor |-> ring.RingColor]

\* A star and one planet, 180 degrees per second, starting at angle 0.
TwoBody ==
    << Body("Sun", 0, <<2>>, 0, 0, 0, 1, TRUE, NoRing),
       Body("Earth", 1, <<>>, 1, 180 * AngleUnit, 0, 1, FALSE, NoRing) >>

\* The same with the planet starting one quantum past angle 0.
TwoBodyOffset ==
    << Body("Sun", 0, <<2>>, 0, 0, 0, 1, TRUE, NoRing),
       Body("Earth", 1, <<>>, 1, 180 * AngleUnit, 1, 1, FALSE, NoRing) >>

\* The same with the planet starting one quantum before angle 0.
TwoBodyBehind ==
    << Body("Sun", 0, <<2>>, 0, 0, 0, 1, TRUE, NoRing),
       Body("Earth", 1, <<>>, 1, 180 * AngleUnit, -1, 1, FALSE, NoRing) >>

\* Star, a very slow retrograde planet, and a ring body (no radius, no orbit of
\* its own) around the planet.
Ringed ==
    << Body("Sun", 0, <<2>>, 0, 0, 0, 1, TRUE, NoRing),
       Body("Saturn", 1, <<3>>, 2, -1, 0, 1, FALSE, NoRing),
       Body("Rings", 2, <<>>, 0, 0, 0, 0, FALSE,
            [RingInnerRadius |-> 2, RingColor |-> "#ccbb99"]) >>

\* A root with ring attributes and no radius; a planet that has ring attributes
\* too; a body with neither radius nor ring colour; a ring around the root.
Placeholders ==
    << Body("Hub", 0, <<2, 3, 4>>, 0, 0, 0, 0, FALSE,
            [RingInnerRadius |-> 2, RingColor |-> "#ccbb99"]),
       Body("Giant", 1, <<>>, 2, 0, 0, 1, FALSE,
            [RingInnerRadius |-> 2, RingColor |-> "#ccbb99"]),
       Body("Ghost", 1, <<>>, 1, 90 * AngleUnit, 0, 0, FALSE,
            [RingInnerRadius |-> 2, RingColor |-> "none"]),
       Body("Halo", 1, <<>>, 0, 0, 0, 0, FALSE,
            [RingInnerRadius |-> 1, RingColor |-> "#ccbb99"]) >>

TreeNames == {"TwoBody", "TwoBodyOffset", "Ringed"}

Tree(name) ==
    CASE name = "TwoBody" -> TwoBody
      [] name = "TwoBodyOffset" -> TwoBodyOffset
      [] name = "TwoBodyBehind" -> TwoBodyBehind
      [] name = "Ringed" -> Ringed
      [] name = "Placeholders" -> Placeholders
      [] OTHER -> <<>>

\* A body of a system description as JSON.parse returns it: the fields of the
\* body and the descriptors of its children, in a list.
Descriptor(name, children, sma, vel, init, radius, star, ring) ==
    [Name |-> name, ChildObjects |-> children, OrbitalSemiMajorAxis |-> sma,
     OrbitalVelocity |-> vel, InitialOrbitalAngle |-> init,
     ObjectRadius |-> radius, IsStar |-> star, Ring |-> ring]

\* The system description each tree is constructed from.
DescriptorOf(name) ==
    CASE name = "TwoBody" ->
           Descriptor("Sun", << Descriptor("Earth", <<>>, 1, 180 * AngleUnit, 0, 1,
                                           FALSE, NoRing) >>,
                      0, 0, 0, 1, TRUE, NoRing)
      [] name = "TwoBodyOffset" ->
           Descriptor("Sun", << Descriptor("Earth", <<>>, 1, 180 * AngleUnit, 1, 1,
                                           FALSE, NoRing) >>,
                      0, 0, 0, 1, TRUE, NoRing)
      [] name = "Ringed" ->
           Descriptor("Sun",
               << Descriptor("Saturn",
                      << Descriptor("Rings", <<>>, 0, 0, 0, 0, FALSE,
                             [RingInnerRadius |-> 2, RingColor |-> "#ccbb99"]) >>,
                      2, -1, 0, 1, FALSE, NoRing) >>,
               0, 0, 0, 1, TRUE, NoRing)
      [] name = "Placeholders" ->
           Descriptor("Hub",
               << Descriptor("Giant", <<>>, 2, 0, 0, 1, FALSE,
                      [RingInnerRadius |-> 2, RingColor |-> "#ccbb99"]),
                  Descriptor("Ghost", <<>>, 1, 90 * AngleUnit, 0, 0, FALSE,
                      [RingInnerRadius |-> 2, RingColor |-> "none"]),
                  Descriptor("Halo", <<>>, 0, 0, 0, 0, FALSE,
                      [RingInnerRadius |-> 1, RingColor |-> "#ccbb99"]) >>,
               0, 0, 0, 0, FALSE,
               [RingInnerRadius |-> 2, RingColor |-> "#ccbb99"])

\* The number of objects new CelestialObject(partialObj) creates.
RECURSIVE Size(_)
RECURSIVE SizeOfFirst(_, _)
Size(partialObj) == 1 + SizeOfFirst(partialObj.ChildObjects, Len(partialObj.ChildObjects))

SizeOfFirst(children, k) ==
    IF k = 0 THEN 0 ELSE SizeOfFirst(children, k - 1) + Size(children[k])

\* The objects of a sequence of subtrees, one after the other.
RECURSIVE Flatten(_, _)
Flatten(subtrees, k) ==
    IF k > Len(subtrees) THEN << >> ELSE subtrees[k] \o Flatten(subtrees, k + 1)

\* A constructor that leaves the children's ParentObject unset.
RECURSIVE CelestialObjectUnlinked(_, _)
CelestialObjectUnlinked(partialObj, id) ==
    LET children == partialObj.ChildObjects
        ChildId(k) == id + 1 + SizeOfFirst(children, k - 1)
        built == [k \in 1..Len(children) |->
                     CelestialObjectUnlinked(children[k], ChildId(k))]
    IN  << Body(partialObj.Name, 0, [k \in 1..Len(children) |-> ChildId(k)],
                partialObj.OrbitalSemiMajorAxis, partialObj.OrbitalVelocity,
                partialObj.InitialOrbitalAngle, partialObj.ObjectRadius,
                partialObj.IsStar, partialObj.Ring) >>
        \o Flatten(built, 1)

\* new CelestialObject(partialObj): Object.assign(this, partialObj), then for
\* each child descriptor in order a new CelestialObject whose ParentObject is
\* set to this object and which is pushed on ChildObjects.  The objects are
\* named by their position in the order of creation, starting at id; the
\* result lists the object and the objects below it.
RECURSIVE CelestialObject(_, _)
CelestialObject(partialObj, id) ==
    LET children == partialObj.ChildObjects
        ChildId(k) == id + 1 + SizeOfFirst(children, k - 1)
        built == [k \in 1..Len(children) |->
                     LET below == CelestialObject(children[k], ChildId(k))
                     IN  [below EXCEPT ![1].ParentObject = id]]
    IN  << Body(partialObj.Name, 0, [k \in 1..Len(children) |-> ChildId(k)],
                partialObj.OrbitalSemiMajorAxis, partialObj.OrbitalVelocity,
                partialObj.InitialOrbitalAngle, partialObj.ObjectRadius,
                partialObj.IsStar, partialObj.Ring) >>
        \o Flatten(built, 1)

\* The JSON text of a system description; ok = FALSE is text JSON.parse rejects.
SystemJson(trees) == [ok : {TRUE}, tree : trees]

MalformedSystemJson == [ok |-> FALSE, tree |-> "TwoBody"]

SystemJsonInputs == SystemJson({"TwoBody", "Ringed"}) \cup {MalformedSystemJson}

OrbitSystemJsonInputs == SystemJson(TreeNames)

\* ---------------------------------------------------------------- settings
\* settings.BackgroundImage: the URL ("" when there is none) and the text
\* Contrast:Brightness:Lighten:Darken:Blur of its filter values.
BackgroundImage(url, filters) == [URL |-> url, Filters |-> filters]

NoBackgroundImage == BackgroundImage("", "0:0:0:0:0")

\* URL.startsWith('#')
IsColor(url) == url \in {"#000011"}

\* SSGSettings field defaults (the fields the modelled code reads).
SettingsDefaults ==
    [AmbientLightColor |-> "#ff00ff", IncludeDirectionalLight |-> FALSE,
     DirectionalLightPosition |-> "[0, 0, 0]", FieldOfViewDegrees |-> 90,
     ViewAngleXDegrees |-> 0, Animate |-> FALSE, AnimationSpeed |-> 0,
     AnimationTimeScale |-> 0, GridType |-> "None", PlanetScale |-> 1,
     StarScale |-> 1, Zoom |-> 1, ResetOrbitControls |-> FALSE,
     LookAt |-> "undefined", BackgroundImage |-> NoBackgroundImage,
     DownloadImage |-> FALSE]

\* new SSGSettings(partialObj): the defaults overwritten by Object.assign.
SSGSettings(partialObj) ==
    [f \in DOMAIN SettingsDefaults |->
        IF f \in DOMAIN partialObj THEN partialObj[f] ELSE SettingsDefaults[f]]

EmptySettings == SSGSettings([Zoom |-> 1])

\* The settings payloads the host sends.
SettingsPayloads ==
    << [LookAt |-> "Earth"],
       [Animate |-> TRUE, AnimationSpeed |-> 1, AnimationTimeScale |-> 1,
        Zoom |-> 2, ResetOrbitControls |-> TRUE],
       [Animate |-> FALSE, AnimationSpeed |-> 0, AnimationTimeScale |-> 2],
       [DirectionalLightPosition |-> "oops", IncludeDirectionalLight |-> TRUE,
        Zoom |-> 2],
       [Animate |-> TRUE, AnimationSpeed |-> 1, AnimationTimeScale |-> 1],
       [Animate |-> TRUE, AnimationSpeed |-> 1, AnimationTimeScale |-> -1],
       [Animate |-> TRUE, AnimationSpeed |-> 1, AnimationTimeScale |-> 1,
        LookAt |-> "Earth"],
       [LookAt |-> "Earth", IncludeDirectionalLight |-> TRUE,
        DirectionalLightPosition |-> "oops"],
       [Animate |-> TRUE, AnimationSpeed |-> 1, AnimationTimeScale |-> 1,
        BackgroundImage |-> BackgroundImage("a.jpg", "0:0:0:0:0")],
       [Animate |-> TRUE, AnimationSpeed |-> 1, AnimationTimeScale |-> 1,
        BackgroundImage |-> BackgroundImage("a.jpg", "0:0:0:0:2")],
       [Animate |-> TRUE, AnimationSpeed |-> 1, AnimationTimeScale |-> 1,
        BackgroundImage |-> BackgroundImage("b.jpg", "0:0:0:0:0")],
       [Animate |-> TRUE, AnimationSpeed |-> 1, AnimationTimeScale |-> 1,
        BackgroundImage |-> BackgroundImage("#000011", "0:0:0:0:0")],
       [ResetOrbitControls |-> TRUE, IncludeDirectionalLight |-> TRUE,
        DirectionalLightPosition |-> "oops"],
       [Animate |-> TRUE, AnimationSpeed |-> 1, AnimationTimeScale |-> 1,
        DownloadImage |-> TRUE],
       [LookAt |-> "Ghost"],
       [Animate |-> TRUE, AnimationSpeed |-> 1, AnimationTimeScale |-> 1,
        PlanetScale |-> 2, StarScale |-> 3],
       [Animate |-> TRUE, AnimationSpeed |-> 1, AnimationTimeScale |-> 59],
       [Animate |-> TRUE, AnimationSpeed |-> 1, AnimationTimeScale |-> 60],
       [Animate |-> TRUE, AnimationSpeed |-> 1, AnimationTimeScale |-> 3600],
       [Animate |-> TRUE, AnimationSpeed |-> 1, AnimationTimeScale |-> 3661],
       [Animate |-> TRUE, AnimationSpeed |-> 1, AnimationTimeScale |-> -60],
       [GridType |-> "Polar", Zoom |-> 2],
       [GridType |-> "Rectangular"],
       [GridType |-> "Hexagonal", Zoom |-> 2],
       [GridType |-> "", PlanetScale |-> 2] >>

\* The JSON text of a settings payload; ok = FALSE is text JSON.parse rejects.
SettingsJson(payloads) == [ok : {TRUE}, payload : payloads]

MalformedSettingsJson == [ok |-> FALSE, payload |-> 1]

SettingsJsonInputs == SettingsJson({1, 2, 4}) \cup {MalformedSettingsJson}

OrbitSettingsJsonInputs == SettingsJson({3, 5, 6})

FrameSettingsJsonInputs == SettingsJson({5, 7})

BgSettingsJsonInputs == SettingsJson({9, 10, 11, 12})

ControlsSettingsJsonInputs == SettingsJson({2, 7, 13})

ExportSettingsJsonInputs == SettingsJson({2, 5, 14})

\* Time scales that bring the simulated clock to and across unit boundaries.
ClockSettingsJsonInputs == SettingsJson({5, 17, 18, 19, 20, 21})

GeometrySettingsJsonInputs == SettingsJson({4, 15, 16})

\* Grids of both types, a type that is neither, and no type, at two zooms.
GridSettingsJsonInputs == SettingsJson({22, 23, 24, 25})

\* What the collaborators called by a frame may do: "none" is a frame in which
\* every call returns; otherwise the named call throws (an orbiter's curve
\* lookup, the orbit controls' update, a draw call of the WebGL renderer).
FrameFaults == {"none", "orbiter", "controls", "draw"}

\* settings.DirectionalLightPositionVec3: JSON.parse of the position text and a
\* spread of the result; anything but a JSON array throws.
DirectionalLightPositionThrows(settings) ==
    settings.DirectionalLightPosition # "[0, 0, 0]"

\* ------------------------------------------------------------------- state
VARIABLES
    CurrentSettings,    \* SettingsManager.CurrentSettings
    PrevSettings,       \* SettingsManager.PrevSettings
    prevIsCurrent,      \* PrevSettings and CurrentSettings are one object
    settingsCallbacks,  \* SettingsManager.settingsCallbacks
    initialized,        \* initialize() has run: canvas and orbitControls exist
    solarSystem,        \* this.solarSystem: [tree, id]; id names the instance
    obj3D,              \* Obj3D of each body of this.solarSystem
    castShadow,         \* castShadow of each body's Obj3D (false by default)
    page,               \* a page with two SSGRenderer objects: the module's
                        \* one SettingsManager and what each renderer shows
    objectGroups,       \* the geometries that are children of each body's
                        \* object-geometry group
    systemGroup,        \* this.systemGroup: [id, scale, rotation]; id 0 is null
    gridGroup,          \* this.gridGroup: [id, scale, rotation, children]
    systemSceneGroups,  \* ids of the system groups that are children of systemScene
    gridSceneGroups,    \* ids of the grid groups that are children of gridScene
    lights,             \* ambient colour; directional light attached or not
    orbiters,           \* this.orbiters
    lookAtTarget,       \* this.lookAtTarget: [inst, node, tree]; node 0 is undefined
    camera,             \* field of view and what the last fit measured
    orbitControls,      \* target (a world position), saved target, and whether
                        \* a fit has set its limits
    actualStartTime,    \* << >> is undefined, <<t>> is t
    lastActualTime,
    simTime,
    clock,              \* the timestamp of the latest animation frame
    pendingFrames,      \* frame callbacks requested and not yet run
    bg,                 \* gridScene.background, lastBGUrl, lastBGSettings,
                        \* cachedBGImage, and the background reactions that are
                        \* suspended at an await (tasks)
    exact               \* history: no arithmetic result was rounded since the latest render

rendererVars ==
    << CurrentSettings, PrevSettings, prevIsCurrent, settingsCallbacks, initialized, solarSystem,
       obj3D, castShadow, objectGroups, systemGroup, gridGroup, systemSceneGroups, gridSceneGroups, lights,
       orbiters, lookAtTarget, camera, orbitControls, actualStartTime,
       lastActualTime, simTime, clock, pendingFrames, bg, exact >>

vars == << rendererVars, page >>

Undefined == << >>

NoTarget == [inst |-> 0, node |-> 0, tree |-> "null"]

NullGroup == [id |-> 0, scale |-> 1, rotation |-> 0, children |-> << >>]

NoPublish ==
    [list |-> << >>, invoked |-> << >>, arg |-> EmptySettings,
     before |-> EmptySettings]

\* The state as one record, so that a handler is a composition of its statements.
\* exc is set when a statement has thrown; the statements after it do not run.
\* trace and lastPublish log one call: the publishes, fit, reset and zoom
\* subscription it made in order (for a frame: its steps), and what its latest
\* publishSettings invoked.  fault is what the collaborators do in that call.
State ==
    [CurrentSettings |-> CurrentSettings, PrevSettings |-> PrevSettings,
     prevIsCurrent |-> prevIsCurrent,
     settingsCallbacks |-> settingsCallbacks, initialized |-> initialized,
     solarSystem |-> solarSystem, obj3D |-> obj3D, systemGroup |-> systemGroup,
     objectGroups |-> objectGroups, castShadow |-> castShadow,
     gridGroup |-> gridGroup, systemSceneGroups |-> systemSceneGroups,
     gridSceneGroups |-> gridSceneGroups, lights |-> lights, orbiters |-> orbiters,
     lookAtTarget |-> lookAtTarget, camera |-> camera,
     orbitControls |-> orbitControls, actualStartTime |-> actualStartTime,
     lastActualTime |-> lastActualTime, simTime |-> simTime, clock |-> clock,
     pendingFrames |-> pendingFrames, bg |-> bg, exact |-> exact, trace |-> << >>,
     lastPublish |-> NoPublish, fault |-> "none", exc |-> FALSE]

Commit(m) ==
    /\ CurrentSettings' = m.CurrentSettings
    /\ PrevSettings' = m.PrevSettings
    /\ prevIsCurrent' = m.prevIsCurrent
    /\ settingsCallbacks' = m.settingsCallbacks
    /\ initialized' = m.initialized
    /\ solarSystem' = m.solarSystem
    /\ obj3D' = m.obj3D
    /\ objectGroups' = m.objectGroups
    /\ castShadow' = m.castShadow
    /\ systemGroup' = m.systemGroup
    /\ gridGroup' = m.gridGroup
    /\ systemSceneGroups' = m.systemSceneGroups
    /\ gridSceneGroups' = m.gridSceneGroups
    /\ lights' = m.lights
    /\ orbiters' = m.orbiters
    /\ lookAtTarget' = m.lookAtTarget
    /\ camera' = m.camera
    /\ orbitControls' = m.orbitControls
    /\ actualStartTime' = m.actualStartTime
    /\ lastActualTime' = m.lastActualTime
    /\ simTime' = m.simTime
    /\ clock' = m.clock
    /\ pendingFrames' = m.pendingFrames
    /\ bg' = m.bg
    /\ exact' = m.exact
    /\ page' = page

Throw(m) == [m EXCEPT !.exc = TRUE]

\* ------------------------------------------------------------------ Orbiter
\* An update that adds to the angle and does not normalise it.
UpdatePositionUnclamped(orbiter, elapsedSeconds) ==
    [orbiter EXCEPT !.currentAngle =
        FAdd(@, FMul(orbiter.angVelDegPerSecond, elapsedSeconds))]

\* Orbiter.updatePosition: the new currentAngle (the position on the curve is
\* the point at currentAngle / 360).
updatePosition(orbiter, elapsedSeconds) ==
    [orbiter EXCEPT !.currentAngle =
        clampDegrees(FAdd(@, FMul(orbiter.angVelDegPerSecond, elapsedSeconds)))]

\* No result of that updatePosition call is rounded.
UpdateIsExact(orbiter, elapsedSeconds) ==
    LET p == orbiter.angVelDegPerSecond * elapsedSeconds
        a == orbiter.currentAngle + FRound(p)
        r == JsRem(FRound(a), FullCircle)
    IN  /\ FRound(p) = p
        /\ FRound(a) = a
        /\ (r < 0 => FRound(r + FullCircle) = r + FullCircle)

\* new Orbiter(...) followed by updatePosition(0), as buildSolarSystem does.
NewOrbiter(node, initialAngle, angVelDegPerSecond) ==
    updatePosition([node |-> node, currentAngle |-> initialAngle,
                    angVelDegPerSecond |-> angVelDegPerSecond], 0)

\* ------------------------------------------------------------- settings bus
Callback(kind, tree, inst, node) ==
    [kind |-> kind, tree |-> tree, inst |-> inst, node |-> node]

SimpleCallback(kind) == Callback(kind, "null", 0, 0)

subscribeSettings(m, settingsCB) ==
    [m EXCEPT !.settingsCallbacks = Append(@, settingsCB)]

\* A clear that keeps the list.
KeepSubscriptions(m) == m

clearSettingsSubscriptions(m) == [m EXCEPT !.settingsCallbacks = << >>]

\* The geometry the body reaction builds for a body.
\* A built mesh: what it is and the settings' scale factor it was sized with.
Geometry(kind, scale) == [kind |-> kind, scale |-> scale]

\* rootObject.Obj3D = undefined
NoGeometry == Geometry("none", 0)

\* A reaction that prefers the ring attributes to the radius.
BodyGeometryRingFirst(body) ==
    IF body.RingInnerRadius > 0 /\ body.RingColor # "none" /\ body.ParentObject # 0
    THEN "ring"
    ELSE IF body.ObjectRadius > 0
         THEN IF body.IsStar THEN "star" ELSE "planet"
         ELSE "none"

BodyGeometry(body) ==
    IF body.ObjectRadius > 0
    THEN IF body.IsStar THEN "star" ELSE "planet"
    ELSE IF body.RingInnerRadius > 0 /\ body.RingColor # "none"
            /\ body.ParentObject # 0
         THEN "ring"
         ELSE "none"

\* The texture the loader makes of an encoded image.
Texture(image, filters) == [image |-> image, filters |-> filters]

\* new THREE.Color(URL)
SceneColor(url) == Texture(url, "color")

\* gridScene.background before any is assigned.
NoBackground == Texture("none", "none")

\* From the comparison of the filter text on: a change is recorded, the cached
\* image is cloned and filtered, and the reaction suspends at
\* await bgImage.getBase64Async(...).
ProcessBackground(m, image) ==
    IF image.Filters # m.bg.lastBGSettings
    THEN [m EXCEPT !.bg.lastBGSettings = image.Filters,
                   !.bg.tasks = Append(@,
                        [stage |-> "encode",
                         image |-> BackgroundImage(m.bg.cachedBGImage, image.Filters)])]
    ELSE m

\* A background reaction that assigns the texture before it returns.
BackgroundReactionBlocking(m, image) ==
    IF image.URL = "" THEN m
    ELSE [m EXCEPT !.bg.background = Texture(image.URL, image.Filters),
                   !.bg.lastBGUrl = image.URL,
                   !.bg.cachedBGImage = image.URL,
                   !.bg.lastBGSettings = image.Filters]

\* The background part of the first reaction, up to its first await: a colour
\* is assigned at once; a new URL suspends at await Jimp.read(URL).
BackgroundReaction(m, image) ==
    IF image.URL = "" THEN m
    ELSE IF IsColor(image.URL)
         THEN [m EXCEPT !.bg.background = SceneColor(image.URL)]
         ELSE IF m.bg.lastBGUrl # image.URL
              THEN [m EXCEPT !.bg.tasks = Append(@, [stage |-> "read", image |-> image])]
              ELSE ProcessBackground(m, image)

RemoveAt(seq, k) == [i \in 1..(Len(seq) - 1) |-> IF i < k THEN seq[i] ELSE seq[i + 1]]

\* A continuation that records the URL of a fetch and keeps an image that is
\* cached already.
ResumeBackgroundKeepsCache(m, k) ==
    LET task == m.bg.tasks[k]
        m1 == [m EXCEPT !.bg.tasks = RemoveAt(@, k)]
    IN  IF task.stage = "read"
        THEN ProcessBackground(
                 [m1 EXCEPT !.bg.cachedBGImage =
                                IF @ = "undefined" THEN task.image.URL ELSE @,
                            !.bg.lastBGUrl = task.image.URL],
                 task.image)
        ELSE [m1 EXCEPT !.bg.background =
                            Texture(task.image.URL, task.image.Filters)]

\* The continuation of the k-th suspended reaction, up to its next await or
\* its end.
ResumeBackground(m, k) ==
    LET task == m.bg.tasks[k]
        m1 == [m EXCEPT !.bg.tasks = RemoveAt(@, k)]
    IN  IF task.stage = "read"
        THEN ProcessBackground([m1 EXCEPT !.bg.cachedBGImage = task.image.URL,
                                          !.bg.lastBGUrl = task.image.URL],
                               task.image)
        ELSE [m1 EXCEPT !.bg.background =
                            Texture(task.image.URL, task.image.Filters)]

\* A failed fetch or encoding that clears the scene's background.
FailBackgroundClearsScene(m, k) ==
    [m EXCEPT !.bg.tasks = RemoveAt(@, k), !.bg.background = NoBackground]

\* The awaited fetch or encoding of suspended reaction k rejects: the reaction
\* ends there, before the assignment that follows its await.
FailBackground(m, k) ==
    [m EXCEPT !.bg.tasks = RemoveAt(@, k)]

\* StarScale or PlanetScale: of the body for a sphere, of its parent for a ring.
GeometryScale(tree, body, settings) ==
    LET sized == IF body.ObjectRadius > 0 THEN body ELSE tree[body.ParentObject]
    IN  IF sized.IsStar THEN settings.StarScale ELSE settings.PlanetScale

\* The sequence without its first element equal to x.
RemoveOne(seq, x) ==
    LET found == {i \in 1..Len(seq) : seq[i] = x}
    IN  IF found = {} THEN seq
        ELSE RemoveAt(seq, CHOOSE i \in found : \A j \in found : i <= j)

\* A reaction that attaches the new geometry and leaves the old one in place.
RebuildGeometryKeepsOld(m, cb, settings) ==
    LET tree == Tree(cb.tree)
        body == tree[cb.node]
        kind == BodyGeometry(body)
        built == Geometry(kind, GeometryScale(tree, body, settings))
    IN  IF kind = "none" THEN [m EXCEPT !.obj3D[cb.node] = NoGeometry]
        ELSE [m EXCEPT !.obj3D[cb.node] = built,
                       !.objectGroups[cb.node] = Append(@, built)]

\* In the ring branch: if (ParentObject && !ParentObject.IsStar &&
\*   ParentObject.Obj3D) ParentObject.Obj3D.castShadow = true
CastParentShadow(m, tree, body) ==
    IF /\ BodyGeometry(body) = "ring"
       /\ ~tree[body.ParentObject].IsStar
       /\ m.obj3D[body.ParentObject] # NoGeometry
    THEN [m EXCEPT !.castShadow[body.ParentObject] = TRUE]
    ELSE m

\* if (rootObject.Obj3D) { objectGroup.remove(rootObject.Obj3D); Obj3D = undefined }
\* ... rootObject.Obj3D = star, planet or ring mesh ...
\* if (rootObject.Obj3D) { objectGroup.add(rootObject.Obj3D) }
\* A mesh that has just been built does not cast shadows.
RebuildGeometry(m, cb, settings) ==
    LET tree == Tree(cb.tree)
        body == tree[cb.node]
        kind == BodyGeometry(body)
        detached == IF m.obj3D[cb.node] # NoGeometry
                    THEN [m EXCEPT !.objectGroups[cb.node] =
                                        RemoveOne(@, m.obj3D[cb.node]),
                                   !.obj3D[cb.node] = NoGeometry,
                                   !.castShadow[cb.node] = FALSE]
                    ELSE m
        built == Geometry(kind, GeometryScale(tree, body, settings))
    IN  IF kind = "none" THEN detached
        ELSE [CastParentShadow(detached, tree, body) EXCEPT
                              !.obj3D[cb.node] = built,
                              !.objectGroups[cb.node] = Append(@, built)]

\* ------------------------------------------------------------ bounding box
SetMax(S) == CHOOSE x \in S : \A y \in S : y <= x

SetMin(S) == CHOOSE x \in S : \A y \in S : x <= y

\* The bodies from the root of a tree down to a node.
RECURSIVE PathTo(_, _)
PathTo(tree, node) ==
    IF node = 0 THEN << >>
    ELSE Append(PathTo(tree, tree[node].ParentObject), node)

\* The angle of the orbiter that positions a node.
AngleOf(m, node) ==
    LET owned == {i \in 1..Len(m.orbiters) : m.orbiters[i].node = node}
    IN  IF owned = {} THEN 0 ELSE m.orbiters[CHOOSE i \in owned : TRUE].currentAngle

\* Vector3(0, 0, 0).
Origin == [scale |-> 1, rotation |-> 0, path |-> << >>]

\* getWorldPosition of a node: the offsets along the orbits of the node and of
\* its ancestors, as << semi-major axis, angle >>, under the scale and rotation
\* of the system group.  A node that no orbit displaces is at the origin.
WorldPositionIn(m, tree, node) ==
    LET Orbits(k) == tree[k].OrbitalSemiMajorAxis > 0
        orbiting == SelectSeq(PathTo(tree, node), Orbits)
        path == [i \in 1..Len(orbiting) |->
                    << tree[orbiting[i]].OrbitalSemiMajorAxis,
                       AngleOf(m, orbiting[i]) >>]
    IN  IF path = << >> THEN Origin
        ELSE [scale |-> m.systemGroup.scale, rotation |-> m.systemGroup.rotation,
              path |-> path]

WorldPosition(m, target) == WorldPositionIn(m, Tree(target.tree), target.node)

\* The cosine of an angle, to the nearest of -1, 0 and 1.
CosRounded(angle) ==
    IF angle < FullCircle \div 8 \/ angle >= 7 * (FullCircle \div 8) THEN 1
    ELSE IF angle >= 3 * (FullCircle \div 8) /\ angle < 5 * (FullCircle \div 8)
         THEN 0 - 1
         ELSE 0

\* The x coordinate of a world position.
RECURSIVE PathX(_, _)
PathX(path, i) ==
    IF i > Len(path) THEN 0
    ELSE path[i][1] * CosRounded(path[i][2]) + PathX(path, i + 1)

XOf(position) == position.scale * PathX(position.path, 1)

\* Box3.setFromObject(systemGroup), along x: the intervals that hold every
\* orbit path and every body geometry of the system group, under its scale.
GroupIntervals(m) ==
    LET tree == Tree(m.solarSystem.tree)
        s == m.systemGroup.scale
        x == [i \in 1..Len(tree) |-> XOf(WorldPositionIn(m, tree, i))]
        X(node) == IF node = 0 THEN 0 ELSE x[node]
        Half(i, geometry) ==
            geometry.scale * (IF geometry.kind = "ring" THEN tree[i].RingInnerRadius
                              ELSE tree[i].ObjectRadius)
        Meshes(i) == {m.objectGroups[i][k] : k \in 1..Len(m.objectGroups[i])}
    IN  UNION { { << x[i] - s * Half(i, geometry), x[i] + s * Half(i, geometry) >> :
                  geometry \in Meshes(i) } : i \in 1..Len(tree) }
        \cup
        { << X(tree[i].ParentObject) - s * tree[i].OrbitalSemiMajorAxis,
             X(tree[i].ParentObject) + s * tree[i].OrbitalSemiMajorAxis >> :
              i \in {j \in 1..Len(tree) : tree[j].OrbitalSemiMajorAxis > 0} }

\* Box3.setFromObject(systemScene): the system group when it is attached.
BoxIntervals(m) ==
    IF m.systemGroup.id \notin m.systemSceneGroups THEN {}
    ELSE GroupIntervals(m)

\* The box of a set of intervals; min = max = 0 stands for the empty box,
\* whose size and centre are 0.
BoxOf(intervals) ==
    IF intervals = {} THEN [min |-> 0, max |-> 0]
    ELSE [min |-> SetMin({iv[1] : iv \in intervals}),
          max |-> SetMax({iv[2] : iv \in intervals})]

BoundingBox(m) == BoxOf(BoxIntervals(m))

\* boundingBox.getSize
Extent(box) == box.max - box.min

\* boundingBox.getCenter, doubled
Center2(box) == box.max + box.min

\* The grid reaction: the group is emptied; unless GridType is unset or
\* "None", the system group is measured as it is and a grid of that size
\* (GridSizeFactor is 1) is added when GridType is Rectangular or Polar.
GridReaction(m, settings) ==
    LET gridSize == Extent(BoxOf(GroupIntervals(m)))
    IN  [m EXCEPT !.gridGroup.children =
            IF settings.GridType \in {"Rectangular", "Polar"}
            THEN << [type |-> settings.GridType, size |-> gridSize] >>
            ELSE << >>]

\* One reaction, by the closure subscribed in render or buildSolarSystem.
React(m, cb, settings) ==
    CASE cb.kind = "fov" ->
           BackgroundReaction(
               [m EXCEPT !.lookAtTarget = NoTarget,
                         !.camera.fov = settings.FieldOfViewDegrees],
               settings.BackgroundImage)
      [] cb.kind = "ambient" ->
           [m EXCEPT !.lights.ambient = settings.AmbientLightColor]
      [] cb.kind = "directional" ->
           LET m1 == [m EXCEPT !.lights.directional = settings.IncludeDirectionalLight]
           IN  IF DirectionalLightPositionThrows(settings) THEN Throw(m1) ELSE m1
      [] cb.kind = "body" ->
           LET body == Tree(cb.tree)[cb.node]
               m1 == IF body.Name = settings.LookAt
                     THEN [m EXCEPT !.lookAtTarget =
                              [inst |-> cb.inst, node |-> cb.node, tree |-> cb.tree]]
                     ELSE m
           IN  IF cb.inst = m1.solarSystem.id
               THEN RebuildGeometry(m1, cb, settings)
               ELSE m1
      [] cb.kind = "grid" -> GridReaction(m, settings)
      [] cb.kind = "view" ->
           [m EXCEPT !.gridGroup.rotation = settings.ViewAngleXDegrees,
                     !.systemGroup.rotation = settings.ViewAngleXDegrees]
      [] cb.kind = "zoom" ->
           [m EXCEPT !.gridGroup.scale = settings.Zoom,
                     !.systemGroup.scale = settings.Zoom]
      [] OTHER -> m

\* nextCB(newSettings), recorded in the history of the publish.
Invoke(m, cb, settings) ==
    React([m EXCEPT !.lastPublish.invoked = Append(@, cb)], cb, settings)

\* The for-of loop of publishSettings: a throw ends it.
RECURSIVE RunCallbacks(_, _, _, _)
RunCallbacks(m, cbs, i, settings) ==
    IF i > Len(cbs) \/ m.exc THEN m
    ELSE RunCallbacks(Invoke(m, cbs[i], settings), cbs, i + 1, settings)

publishSettings(m, newSettings) ==
    IF m.exc THEN m
    ELSE RunCallbacks(
           [m EXCEPT !.PrevSettings = m.CurrentSettings,
                     !.CurrentSettings = newSettings,
                     !.prevIsCurrent = FALSE,
                     !.trace = Append(@, "publish"),
                     !.lastPublish = [list |-> m.settingsCallbacks,
                                      invoked |-> << >>,
                                      arg |-> newSettings,
                                      before |-> m.CurrentSettings]],
           m.settingsCallbacks, 1, newSettings)

\* ------------------------------------------------------------ scene builder
\* buildSolarSystem: one orbiter for a body with a positive semi-major axis,
\* then the body's reaction, then the children in order.
\* A builder that subscribes a body's reaction after those of its children.
RECURSIVE buildSolarSystemChildrenFirst(_, _, _, _)
RECURSIVE BuildChildrenFirst(_, _, _, _, _)
buildSolarSystemChildrenFirst(m, tree, inst, node) ==
    LET rootObject == Tree(tree)[node]
        m1 == IF rootObject.OrbitalSemiMajorAxis > 0
              THEN [m EXCEPT !.orbiters =
                      Append(@, NewOrbiter(node, rootObject.InitialOrbitalAngle,
                                           rootObject.OrbitalVelocity))]
              ELSE m
        m2 == BuildChildrenFirst(m1, tree, inst, rootObject.ChildObjects, 1)
    IN  subscribeSettings(m2, Callback("body", tree, inst, node))

BuildChildrenFirst(m, tree, inst, children, k) ==
    IF k > Len(children) THEN m
    ELSE BuildChildrenFirst(buildSolarSystemChildrenFirst(m, tree, inst, children[k]),
                            tree, inst, children, k + 1)

RECURSIVE buildSolarSystem(_, _, _, _)
RECURSIVE BuildChildren(_, _, _, _, _)
buildSolarSystem(m, tree, inst, node) ==
    LET rootObject == Tree(tree)[node]
        m1 == IF rootObject.OrbitalSemiMajorAxis > 0
              THEN [m EXCEPT !.orbiters =
                      Append(@, NewOrbiter(node, rootObject.InitialOrbitalAngle,
                                           rootObject.OrbitalVelocity))]
              ELSE m
        m2 == subscribeSettings(m1, Callback("body", tree, inst, node))
    IN  BuildChildren(m2, tree, inst, rootObject.ChildObjects, 1)

BuildChildren(m, tree, inst, children, k) ==
    IF k > Len(children) THEN m
    ELSE BuildChildren(buildSolarSystem(m, tree, inst, children[k]),
                       tree, inst, children, k + 1)

\* The groups buildSolarSystem creates for a body: sceneGroup, named
\* `<Name>-root`, and objectGroup, named `<Name>-obj-geom`.
RootGroup(node) == << "root", node >>

ObjectGroup(node) == << "obj-geom", node >>

\* A builder that attaches each child's root group to the parent's root group.
RECURSIVE SceneGraphFlat(_, _)
SceneGraphFlat(tree, node) ==
    {<< RootGroup(node), ObjectGroup(node) >>}
    \cup UNION { {<< RootGroup(node), RootGroup(tree[node].ChildObjects[k]) >>}
                 \cup SceneGraphFlat(tree, tree[node].ChildObjects[k]) :
                 k \in 1..Len(tree[node].ChildObjects) }

\* The parent-child pairs of the hierarchy buildSolarSystem(rootObject)
\* returns: sceneGroup.add(objectGroup), and objectGroup.add(childGroup) for
\* the group built for each of rootObject.ChildObjects.
RECURSIVE SceneGraph(_, _)
SceneGraph(tree, node) ==
    {<< RootGroup(node), ObjectGroup(node) >>}
    \cup UNION { {<< ObjectGroup(node), RootGroup(tree[node].ChildObjects[k]) >>}
                 \cup SceneGraph(tree, tree[node].ChildObjects[k]) :
                 k \in 1..Len(tree[node].ChildObjects) }

\* ------------------------------------------------------------ camera fitter
\* const lookAtVec = new Vector3(0, 0, 0);
\* if (this.lookAtTarget) { this.lookAtTarget.getWorldPosition(lookAtVec); }
FitTarget(m) ==
    IF m.lookAtTarget.node # 0 THEN WorldPosition(m, m.lookAtTarget) ELSE Origin

\* fitCameraToObject: the bounding box of the scene is measured with the scale
\* the system group has at that moment; the controls get their target and limits.
fitCameraToObject(m) ==
    IF m.exc THEN m
    ELSE
      LET m1 == [m EXCEPT !.camera.fitSize = Extent(BoundingBox(m)),
                          !.camera.fitScale = m.systemGroup.scale,
                          !.trace = Append(@, "fit")]
      IN  IF m.initialized
          THEN [m1 EXCEPT !.orbitControls =
                   [target |-> FitTarget(m), saved |-> m.orbitControls.target,
                    fitted |-> TRUE]]
          ELSE m1

\* if (newSettings.ResetOrbitControls) { orbitControls.reset(); flag = false }
\* orbitControls is null until initialize() has run.
ResetOrbitControls(m) ==
    IF m.exc THEN m
    ELSE IF ~m.initialized THEN Throw(m)
    ELSE [m EXCEPT !.orbitControls.target = m.orbitControls.saved,
                   !.trace = Append(@, "reset")]

\* ------------------------------------------------------------------ render
DEFAULT_FOV == 70

\* Objects created by one render call (the CelestialObject tree, the groups)
\* carry one id; a new render takes the least id that nothing refers to.
IdsInUse(m) ==
    {m.solarSystem.id, m.systemGroup.id, m.gridGroup.id, m.lookAtTarget.inst}
    \cup m.systemSceneGroups \cup m.gridSceneGroups
    \cup {m.settingsCallbacks[i].inst : i \in 1..Len(m.settingsCallbacks)}

FreshId(m) ==
    LET ids == IdsInUse(m)
    IN  CHOOSE n \in 1..(Cardinality(ids) + 1) :
            /\ n \notin ids
            /\ \A k \in 1..(n - 1) : k \in ids

\* Ids only tell objects apart, so a state is kept in the form in which the
\* newest instance has id 1 and the older ones still referred to follow in order.
NewNames(m) ==
    LET older == IdsInUse(m) \ {0, m.solarSystem.id}
    IN  [id \in IdsInUse(m) \cup {0} |->
            IF id = 0 THEN 0
            ELSE IF id = m.solarSystem.id THEN 1
            ELSE 2 + Cardinality({k \in older : k < id})]

RenameCallbacks(names, cbs) ==
    [i \in 1..Len(cbs) |-> [cbs[i] EXCEPT !.inst = names[@]]]

Renamed(m) ==
    LET names == NewNames(m)
    IN  [m EXCEPT !.solarSystem.id = names[@],
                  !.systemGroup.id = names[@],
                  !.gridGroup.id = names[@],
                  !.lookAtTarget.inst = names[@],
                  !.systemSceneGroups = {names[k] : k \in @},
                  !.gridSceneGroups = {names[k] : k \in @},
                  !.settingsCallbacks = RenameCallbacks(names, @)]

\* render up to the first publish: teardown, subscriptions, build.
RenderBuild(m, tree, inst) ==
    LET a == subscribeSettings(subscribeSettings(m, SimpleCallback("ambient")),
                               SimpleCallback("directional"))
        b == buildSolarSystem([a EXCEPT !.orbiters = << >>], tree, inst, 1)
        c == [b EXCEPT !.systemGroup = [NullGroup EXCEPT !.id = inst],
                       !.gridGroup = [NullGroup EXCEPT !.id = inst]]
        d == subscribeSettings(subscribeSettings(c, SimpleCallback("grid")),
                               SimpleCallback("view"))
    IN  [d EXCEPT !.systemSceneGroups = @ \cup {inst},
                  !.gridSceneGroups = @ \cup {inst}]

SubscribeZoom(m) ==
    IF m.exc THEN m
    ELSE [subscribeSettings(m, SimpleCallback("zoom"))
            EXCEPT !.trace = Append(@, "subscribeZoom")]

\* A render that subscribes the zoom reaction before its first publish.
RenderPublishZoomFirst(m, newSettings) ==
    LET a == publishSettings(SubscribeZoom(m), newSettings)
        s2 == [newSettings EXCEPT !.ResetOrbitControls = FALSE]
    IN  publishSettings(fitCameraToObject(a), s2)

\* publishSettings with the object that is CurrentSettings already: from
\* `this.PrevSettings = this.CurrentSettings` on, both name that object.
PublishAgain(m, newSettings) ==
    IF m.exc THEN m
    ELSE RunCallbacks(
           [m EXCEPT !.PrevSettings = m.CurrentSettings,
                     !.CurrentSettings = newSettings,
                     !.prevIsCurrent = TRUE,
                     !.trace = Append(@, "publish"),
                     !.lastPublish = [list |-> m.settingsCallbacks,
                                      invoked |-> << >>,
                                      arg |-> newSettings,
                                      before |-> m.CurrentSettings]],
           m.settingsCallbacks, 1, newSettings)

\* A render that resets the controls and leaves the flag set.
RenderPublishKeepsFlag(m, newSettings) ==
    LET a == publishSettings(m, newSettings)
        b == IF ~a.exc /\ newSettings.ResetOrbitControls
             THEN ResetOrbitControls(a) ELSE a
    IN  publishSettings(SubscribeZoom(fitCameraToObject(b)), newSettings)

\* render from the first publish on.  The reset flag is cleared on the
\* settings object itself, which by then is CurrentSettings too.
RenderPublish(m, newSettings) ==
    LET a == publishSettings(m, newSettings)
        b == IF ~a.exc /\ newSettings.ResetOrbitControls
             THEN LET r == ResetOrbitControls(a)
                  IN  IF r.exc THEN r
                      ELSE [r EXCEPT !.CurrentSettings.ResetOrbitControls = FALSE]
             ELSE a
        s2 == [newSettings EXCEPT !.ResetOrbitControls = FALSE]
    IN  PublishAgain(SubscribeZoom(fitCameraToObject(b)), s2)

\* A render that keeps the animation clock of the previous system.
KeepAnimationState(m) == m

\* actualStartTime = lastActualTime = simTime = undefined.
ResetAnimationState(m) ==
    [m EXCEPT !.actualStartTime = Undefined,
              !.lastActualTime = Undefined,
              !.simTime = Undefined,
              !.exact = TRUE]

render(m, solarSystemJson, settingsJson) ==
    LET inst == FreshId(m)
        tree == solarSystemJson.tree
    IN  IF ~solarSystemJson.ok THEN Throw(m)
        ELSE
          LET a == clearSettingsSubscriptions(
                     [m EXCEPT !.solarSystem = [tree |-> tree, id |-> inst],
                               !.obj3D = [i \in 1..Len(Tree(tree)) |-> NoGeometry],
                               !.objectGroups = [i \in 1..Len(Tree(tree)) |-> << >>],
                               !.castShadow = [i \in 1..Len(Tree(tree)) |-> FALSE]])
              b == [ResetAnimationState(a) EXCEPT
                             !.systemSceneGroups = @ \ {a.systemGroup.id},
                             !.gridSceneGroups = @ \ {a.gridGroup.id}]
              c == subscribeSettings(b, SimpleCallback("fov"))
          IN  IF ~settingsJson.ok THEN Throw(c)
              ELSE
                RenderPublish(RenderBuild(c, tree, inst),
                              SSGSettings(SettingsPayloads[settingsJson.payload]))

Rendered(m, solarSystemJson, settingsJson) ==
    Renamed(render(m, solarSystemJson, settingsJson))

\* ---------------------------------------------------------- updateSettings
\* A settings update that publishes the snapshot twice.
UpdateSettingsTwice(m, settingsJson) ==
    IF ~settingsJson.ok THEN Throw(m)
    ELSE
      LET newSettings == SSGSettings(SettingsPayloads[settingsJson.payload])
          a == IF newSettings.ResetOrbitControls THEN ResetOrbitControls(m) ELSE m
          s2 == [newSettings EXCEPT !.ResetOrbitControls = FALSE]
      IN  publishSettings(publishSettings(a, s2), s2)

updateSettings(m, settingsJson) ==
    IF ~settingsJson.ok THEN Throw(m)
    ELSE
      LET newSettings == SSGSettings(SettingsPayloads[settingsJson.payload])
          a == IF newSettings.ResetOrbitControls THEN ResetOrbitControls(m) ELSE m
      IN  publishSettings(a, [newSettings EXCEPT !.ResetOrbitControls = FALSE])

\* --------------------------------------------------------- animation clock
OrDefault(maybe, value) == IF maybe = Undefined THEN value ELSE maybe[1]

\* The time scale of a frame.
SpeedScale(settings) ==
    IF FloatNE(settings.AnimationSpeed, 0) THEN settings.AnimationTimeScale ELSE 0

\* A frame step: it runs unless an earlier step has thrown, is logged, and
\* throws when the collaborator it calls does.
FrameStep(m, step, after) ==
    IF m.exc THEN m
    ELSE IF m.fault = step THEN Throw([m EXCEPT !.trace = Append(@, step)])
    ELSE [after EXCEPT !.trace = Append(@, step)]

\* A request that registers two callbacks.
RequestTwoFrames(m) ==
    IF m.exc THEN m
    ELSE [m EXCEPT !.pendingFrames = @ + 2, !.trace = Append(@, "requestFrame")]

\* getNextAnimationFrame: requestAnimationFrame(updateAnimation).
getNextAnimationFrame(m) ==
    IF m.exc THEN m
    ELSE [m EXCEPT !.pendingFrames = @ + 1, !.trace = Append(@, "requestFrame")]

\* for (const nextOrbiter of this.orbiters) nextOrbiter.updatePosition(...)
AdvanceOrbiters(m, simElapsedSeconds) ==
    IF m.exc \/ m.orbiters = << >> THEN m
    ELSE FrameStep(m, "orbiter",
           [m EXCEPT !.orbiters = [i \in 1..Len(m.orbiters) |->
                         updatePosition(m.orbiters[i], simElapsedSeconds)]])

\* if (this.lookAtTarget) { getWorldPosition(lookAtVec);
\*   if (this.orbitControls) { target = lookAtVec; update(); } }
FollowLookAt(m) ==
    IF m.exc \/ m.lookAtTarget.node = 0 \/ ~m.initialized THEN m
    ELSE LET aimed == [m EXCEPT !.orbitControls.target =
                                    WorldPosition(m, m.lookAtTarget)]
         IN  FrameStep(aimed, "controls", aimed)

\* clear, render(gridScene), clearDepth, render(systemScene)
DrawScenes(m) ==
    LET gridDrawn == FrameStep(m, "draw", m)
    IN  FrameStep(gridDrawn, "draw", gridDrawn)

\* A frame that exports and leaves the flag set.
ExportImageKeepsFlag(m) ==
    IF m.exc \/ ~m.CurrentSettings.DownloadImage THEN m
    ELSE [m EXCEPT !.trace = Append(@, "export")]

\* if (CurrentSettings.DownloadImage) { CurrentSettings.DownloadImage = false;
\*   domElement.toBlob(...) }: the flag is cleared on the published object,
\* which PrevSettings may name too.
ExportImage(m) ==
    IF m.exc \/ ~m.CurrentSettings.DownloadImage THEN m
    ELSE [m EXCEPT !.CurrentSettings.DownloadImage = FALSE,
                   !.PrevSettings.DownloadImage =
                        IF m.prevIsCurrent THEN FALSE ELSE @,
                   !.trace = Append(@, "export")]

\* A frame that aims the controls before it advances the orbiters.
FrameStepsAimFirst(m, simElapsedSeconds) ==
    DrawScenes(AdvanceOrbiters(FollowLookAt(m), simElapsedSeconds))

FrameSteps(m, simElapsedSeconds) ==
    DrawScenes(FollowLookAt(AdvanceOrbiters(m, simElapsedSeconds)))

updateAnimation(m, actualTime) ==
    LET start == OrDefault(m.actualStartTime, actualTime)
        last == OrDefault(m.lastActualTime, actualTime)
        sim == OrDefault(m.simTime, 0)
        speedScale == SpeedScale(m.CurrentSettings)
        actualElapsedSeconds == FSub(actualTime, last)
        simElapsedSeconds == FMul(actualElapsedSeconds, speedScale)
        m1 == [m EXCEPT
                 !.clock = actualTime,
                 !.actualStartTime = << start >>,
                 !.lastActualTime = << actualTime >>,
                 !.simTime = << FAdd(sim, simElapsedSeconds) >>,
                 !.exact = /\ m.exact
                           /\ actualTime - last = actualElapsedSeconds
                           /\ actualElapsedSeconds * speedScale = simElapsedSeconds
                           /\ sim + simElapsedSeconds = FAdd(sim, simElapsedSeconds)
                           /\ \A i \in 1..Len(m.orbiters) :
                                 UpdateIsExact(m.orbiters[i], simElapsedSeconds)]
    IN  getNextAnimationFrame(ExportImage(FrameSteps(m1, simElapsedSeconds)))

\* The browser runs a requested callback: it is no longer pending.
FrameCallback(m, actualTime, fault) ==
    updateAnimation([m EXCEPT !.pendingFrames = @ - 1, !.fault = fault], actualTime)

\* The renderer variant that freezes simulated time: let speedScale = 1;
\* if (CurrentSettings.AnimationSpeed != 0) speedScale = AnimationTimeScale.
SpeedScaleFrozen(settings) ==
    IF settings.AnimationSpeed # 0 THEN settings.AnimationTimeScale ELSE 1

\* updateAnimation of that variant: the times, lastActualTime among them, and
\* the orbiters are touched only inside if (CurrentSettings.Animate) { ... };
\* the scenes are drawn and the next frame requested in every frame.
updateAnimationFrozen(m, actualTime) ==
    LET start == OrDefault(m.actualStartTime, actualTime)
        last == OrDefault(m.lastActualTime, actualTime)
        sim == OrDefault(m.simTime, 0)
        speedScale == SpeedScaleFrozen(m.CurrentSettings)
        actualElapsedSeconds == FSub(actualTime, last)
        simElapsedSeconds == FMul(actualElapsedSeconds, speedScale)
        m1 == [m EXCEPT !.clock = actualTime]
        m2 == [m1 EXCEPT
                 !.actualStartTime = << start >>,
                 !.lastActualTime = << actualTime >>,
                 !.simTime = << FAdd(sim, simElapsedSeconds) >>,
                 !.exact = /\ m.exact
                           /\ actualTime - last = actualElapsedSeconds
                           /\ actualElapsedSeconds * speedScale = simElapsedSeconds
                           /\ sim + simElapsedSeconds = FAdd(sim, simElapsedSeconds)
                           /\ \A i \in 1..Len(m.orbiters) :
                                 UpdateIsExact(m.orbiters[i], simElapsedSeconds)]
        animated == IF m.CurrentSettings.Animate
                    THEN AdvanceOrbiters(m2, simElapsedSeconds)
                    ELSE m1
    IN  getNextAnimationFrame(DrawScenes(animated))

FrameCallbackFrozen(m, actualTime) ==
    updateAnimationFrozen([m EXCEPT !.pendingFrames = @ - 1], actualTime)

\* ------------------------------------------------------------ two renderers
\* The SSGRenderer objects of the page.
Renderers == {1, 2}

\* const SettingsManager = new SettingsManagerImpl(): one object for the
\* module, used by every SSGRenderer. Of a renderer the page keeps the
\* snapshot its scene reactions and its zoom reaction have applied, the
\* snapshot published through it last, and the one its last frame has read.
PageInit ==
    [CurrentSettings |-> EmptySettings, PrevSettings |-> EmptySettings,
     settingsCallbacks |-> << >>,
     renderers |-> [i \in Renderers |->
                      [scene |-> EmptySettings, zoom |-> EmptySettings,
                       published |-> EmptySettings, frame |-> EmptySettings]],
     invoked |-> << >>, cleared |-> << >>]

\* A reaction subscribed by a renderer's render: it closes over that renderer.
PageReact(p, cb, settings) ==
    IF cb.kind = "zoom"
    THEN [p EXCEPT !.renderers[cb.owner].zoom = settings,
                   !.invoked = Append(@, cb)]
    ELSE [p EXCEPT !.renderers[cb.owner].scene = settings,
                   !.invoked = Append(@, cb)]

RECURSIVE PageRunCallbacks(_, _, _, _)
PageRunCallbacks(p, cbs, k, settings) ==
    IF k > Len(cbs) THEN p
    ELSE PageRunCallbacks(PageReact(p, cbs[k], settings), cbs, k + 1, settings)

\* SettingsManager.publishSettings, called by renderer i.
PagePublishSettings(p, i, newSettings) ==
    PageRunCallbacks([p EXCEPT !.PrevSettings = p.CurrentSettings,
                               !.CurrentSettings = newSettings,
                               !.renderers[i].published = newSettings],
                     p.settingsCallbacks, 1, newSettings)

\* render of renderer i: clearSettingsSubscriptions(), the scene reactions
\* subscribed, a publish, the zoom reaction subscribed, a second publish.
\* invoked and cleared log the reactions this call has invoked and removed.
PageRender(p, i, settingsJson) ==
    LET newSettings == SSGSettings(SettingsPayloads[settingsJson.payload])
        a == [p EXCEPT !.settingsCallbacks = << [owner |-> i, kind |-> "scene"] >>,
                       !.invoked = << >>,
                       !.cleared = p.settingsCallbacks]
        b == PagePublishSettings(a, i, newSettings)
        c == [b EXCEPT !.settingsCallbacks =
                           Append(@, [owner |-> i, kind |-> "zoom"])]
    IN  PagePublishSettings(c, i, newSettings)

\* updateSettings of renderer i.
PageUpdateSettings(p, i, settingsJson) ==
    PagePublishSettings([p EXCEPT !.invoked = << >>, !.cleared = << >>], i,
                        SSGSettings(SettingsPayloads[settingsJson.payload]))

\* updateAnimation of renderer i reads SettingsManager.CurrentSettings.
PageFrame(p, i) ==
    [p EXCEPT !.renderers[i].frame = p.CurrentSettings,
              !.invoked = << >>, !.cleared = << >>]

\* ------------------------------------------------------------ specification
Init ==
    /\ CurrentSettings = EmptySettings
    /\ PrevSettings = EmptySettings
    /\ prevIsCurrent = TRUE
    /\ settingsCallbacks = << >>
    /\ initialized = FALSE
    /\ solarSystem = [tree |-> "null", id |-> 0]
    /\ obj3D = << >>
    /\ objectGroups = << >>
    /\ castShadow = << >>
    /\ page = PageInit
    /\ systemGroup = NullGroup
    /\ gridGroup = NullGroup
    /\ systemSceneGroups = {}
    /\ gridSceneGroups = {}
    /\ lights = [ambient |-> "#ffffff", directional |-> FALSE]
    /\ orbiters = << >>
    /\ lookAtTarget = NoTarget
    /\ camera = [fov |-> DEFAULT_FOV, fitSize |-> 0, fitScale |-> 0]
    /\ orbitControls = [target |-> Origin, saved |-> Origin, fitted |-> FALSE]
    /\ actualStartTime = Undefined
    /\ lastActualTime = Undefined
    /\ simTime = Undefined
    /\ clock = 0
    /\ pendingFrames = 1
    /\ bg = [background |-> NoBackground, lastBGUrl |-> "undefined",
             lastBGSettings |-> "undefined", cachedBGImage |-> "undefined",
             tasks |-> << >>]
    /\ exact = TRUE

\* initialize(canvasDivId): the canvas is found and the orbit controls created.
Initialize ==
    /\ ~initialized
    /\ Commit([State EXCEPT !.initialized = TRUE])

RenderWith(systems, settings) ==
    \E solarSystemJson \in systems, settingsJson \in settings :
        Commit(Rendered(State, solarSystemJson, settingsJson))

UpdateSettingsWith(settings) ==
    \E settingsJson \in settings :
        Commit(updateSettings(State, settingsJson))

\* One animation frame, at a timestamp not before the previous frame's.
FrameWith(maxTime, faults) ==
    /\ pendingFrames > 0
    /\ \E actualTime \in clock..maxTime, fault \in faults :
          Commit(FrameCallback(State, actualTime, fault))

FrameUpTo(maxTime) == FrameWith(maxTime, {"none"})

Render == RenderWith(SystemJsonInputs, SettingsJsonInputs)

UpdateSettings == UpdateSettingsWith(SettingsJsonInputs)

Frame == FrameUpTo(MaxTime)

Next == Initialize \/ Render \/ UpdateSettings \/ Frame

Spec == Init /\ [][Next]_vars

\* The host API once more, so that the claim that renders twice in every state
\* (C5) is checked in a run of its own: render takes every input, and the
\* updates between renders are the animated, the throwing and the malformed one.
RenderUpdateSettings ==
    UpdateSettingsWith(SettingsJson({2, 4}) \cup {MalformedSettingsJson})

RenderNext == Initialize \/ Render \/ RenderUpdateSettings \/ Frame

SpecRender == Init /\ [][RenderNext]_vars

\* The same program with well-formed inputs only and a longer run of frames.
OrbitRender == RenderWith(OrbitSystemJsonInputs, OrbitSettingsJsonInputs)

OrbitUpdateSettings == UpdateSettingsWith(OrbitSettingsJsonInputs)

OrbitFrame == FrameUpTo(MaxOrbitTime)

OrbitNext == OrbitRender \/ OrbitUpdateSettings \/ OrbitFrame

SpecOrbit == Init /\ [][OrbitNext]_vars

\* The same program with frames in which a collaborator may throw, and with a
\* look-at target that moves.
FrameRender == RenderWith(SystemJson({"TwoBody", "Ringed"}), FrameSettingsJsonInputs)

FrameUpdateSettings == UpdateSettingsWith(FrameSettingsJsonInputs)

FaultyFrame == FrameWith(MaxFrameTime, FrameFaults)

FrameNext == Initialize \/ FrameRender \/ FrameUpdateSettings \/ FaultyFrame

SpecFrame == Init /\ [][FrameNext]_vars

\* The host API with settings that ask for a reset of the orbit controls, with
\* and without a reaction that throws, and a look-at target that moves.
ControlsRender == RenderWith(SystemJson({"TwoBody"}), ControlsSettingsJsonInputs)

ControlsUpdateSettings == UpdateSettingsWith(ControlsSettingsJsonInputs)

ControlsFrame == FrameUpTo(MaxFrameTime)

ControlsNext ==
    Initialize \/ ControlsRender \/ ControlsUpdateSettings \/ ControlsFrame

SpecControls == Init /\ [][ControlsNext]_vars

\* The host API with trees whose bodies have every combination of radius and
\* ring attributes, and settings that rescale the bodies.
GeometryRender ==
    RenderWith(SystemJson({"Ringed", "Placeholders"}), GeometrySettingsJsonInputs)

GeometryUpdateSettings == UpdateSettingsWith(GeometrySettingsJsonInputs)

GeometryFrame == FrameUpTo(MaxTime)

GeometryNext ==
    Initialize \/ GeometryRender \/ GeometryUpdateSettings \/ GeometryFrame

SpecGeometry == Init /\ [][GeometryNext]_vars

\* The host API with settings that ask for an image export or for a reset.
ExportRender == RenderWith(SystemJson({"TwoBody"}), ExportSettingsJsonInputs)

ExportUpdateSettings == UpdateSettingsWith(ExportSettingsJsonInputs)

ExportFrame == FrameUpTo(MaxFrameTime)

ExportNext == Initialize \/ ExportRender \/ ExportUpdateSettings \/ ExportFrame

SpecExport == Init /\ [][ExportNext]_vars

\* The variant that freezes simulated time while Animate is false; its render
\* and updateSettings reset the times and publish the snapshot as above.
FrozenRender == RenderWith(SystemJson({"TwoBody"}), OrbitSettingsJsonInputs)

FrozenUpdateSettings == UpdateSettingsWith(OrbitSettingsJsonInputs)

FrozenFrame ==
    /\ pendingFrames > 0
    /\ \E actualTime \in clock..MaxOrbitTime :
          Commit(FrameCallbackFrozen(State, actualTime))

FrozenNext == FrozenRender \/ FrozenUpdateSettings \/ FrozenFrame

SpecFrozen == Init /\ [][FrozenNext]_vars

\* Two renderers in one page.
PageSettingsJsonInputs == SettingsJson({3, 5, 6})

PageRenders ==
    /\ \E i \in Renderers, settingsJson \in PageSettingsJsonInputs :
          page' = PageRender(page, i, settingsJson)
    /\ UNCHANGED rendererVars

PageUpdatesSettings ==
    /\ \E i \in Renderers, settingsJson \in PageSettingsJsonInputs :
          page' = PageUpdateSettings(page, i, settingsJson)
    /\ UNCHANGED rendererVars

PageFrames ==
    /\ \E i \in Renderers : page' = PageFrame(page, i)
    /\ UNCHANGED rendererVars

PageNext == PageRenders \/ PageUpdatesSettings \/ PageFrames

SpecPage == Init /\ [][PageNext]_vars

\* Grids: publishes that change the grid type and the zoom.
GridRender == RenderWith(SystemJson({"TwoBody", "Ringed"}), GridSettingsJsonInputs)

GridUpdateSettings == UpdateSettingsWith(GridSettingsJsonInputs)

GridFrame == FrameUpTo(MaxTime)

GridNext == Initialize \/ GridRender \/ GridUpdateSettings \/ GridFrame

SpecGrid == Init /\ [][GridNext]_vars

\* The system clock: frames under time scales around the unit boundaries.
ClockRender == RenderWith(SystemJson({"TwoBody"}), ClockSettingsJsonInputs)

ClockUpdateSettings == UpdateSettingsWith(ClockSettingsJsonInputs)

ClockFrame == FrameUpTo(MaxFrameTime)

ClockNext == Initialize \/ ClockRender \/ ClockUpdateSettings \/ ClockFrame

SpecClock == Init /\ [][ClockNext]_vars

\* The same program with background images: a suspended background reaction
\* resumes, or ends with its awaited promise rejected, in any order with the
\* other steps.
BackgroundStep ==
    \E k \in 1..Len(bg.tasks) : Commit(ResumeBackground(State, k))

BgRender ==
    /\ Len(bg.tasks) < MaxBgTasks
    /\ RenderWith(SystemJson({"TwoBody"}), BgSettingsJsonInputs)

BgUpdateSettings ==
    /\ Len(bg.tasks) < MaxBgTasks
    /\ UpdateSettingsWith(BgSettingsJsonInputs)

BgFrame == FrameUpTo(MaxBgTime)

BackgroundFailure ==
    \E k \in 1..Len(bg.tasks) : Commit(FailBackground(State, k))

BgNext ==
    BgRender \/ BgUpdateSettings \/ BgFrame \/ BackgroundStep \/ BackgroundFailure

SpecBackground == Init /\ [][BgNext]_vars

\* ------------------------------------------------------------ settings bus
PublishedSettings ==
    {SSGSettings(SettingsPayloads[i]) : i \in 1..Len(SettingsPayloads)}

\* C1: publishSettings(s) moves Current to Previous, stores s as Current and
\* invokes every entry of the subscription list once, in subscription order.
C1_PublishInvokesEveryEntry ==
    \A s \in PublishedSettings :
        LET r == publishSettings(State, s)
        IN  /\ r.PrevSettings = CurrentSettings
            /\ r.CurrentSettings = s
            /\ r.lastPublish.arg = s
            /\ r.lastPublish.invoked = settingsCallbacks

\* C2: whatever subscribe, clear and publish calls a render makes, its last
\* publish invokes exactly the reactions subscribed since the clear: all of
\* the list as it stands, and no body reaction of an earlier tree.
C2_PublishReachesCurrentSubscribers ==
    \A solarSystemJson \in SystemJsonInputs, settingsJson \in SettingsJsonInputs :
        LET r == render(State, solarSystemJson, settingsJson)
            p == r.lastPublish
        IN  /\ p.invoked = p.list
            /\ \A i \in 1..Len(p.invoked) :
                   p.invoked[i].inst \in {0, r.solarSystem.id}

\* C3: when a reaction throws during a publish, the reactions subscribed after
\* it are still invoked in that publish.
C3_ThrowingReactionIsIsolated ==
    \A s \in PublishedSettings :
        LET r == publishSettings(State, s)
        IN  r.exc => Len(r.lastPublish.invoked) = Len(settingsCallbacks)

\* ------------------------------------------------------------------ render
RenderSteps == << "publish", "fit", "subscribeZoom", "publish" >>

NotReset(step) == step # "reset"

IsPublish(step) == step = "publish"

IsPrefix(s, t) == Len(s) <= Len(t) /\ s = SubSeq(t, 1, Len(s))

Kinds(cbs) == [i \in 1..Len(cbs) |-> cbs[i].kind]

RECURSIVE Repeat(_, _)
Repeat(x, n) == IF n = 0 THEN << >> ELSE << x >> \o Repeat(x, n - 1)

RECURSIVE OrbitingBodies(_, _)
OrbitingBodies(tree, i) ==
    IF i > Len(tree) THEN << >>
    ELSE (IF tree[i].OrbitalSemiMajorAxis > 0 THEN << i >> ELSE << >>)
         \o OrbitingBodies(tree, i + 1)

\* C4: every render publishes, fits the camera, subscribes the zoom reaction
\* and publishes again, in that order; the fit measures the system group at
\* scale 1, and when render returns both groups have scale settings.Zoom.
C4_RenderFitsBeforeZoom ==
    \A solarSystemJson \in SystemJsonInputs, settingsJson \in SettingsJsonInputs :
        LET r == render(State, solarSystemJson, settingsJson)
            steps == SelectSeq(r.trace, NotReset)
        IN  /\ IsPrefix(steps, RenderSteps)
            /\ Len(steps) >= 2 => r.camera.fitScale = 1
            /\ ~r.exc =>
                  /\ steps = RenderSteps
                  /\ r.systemGroup.scale = r.CurrentSettings.Zoom
                  /\ r.gridGroup.scale = r.CurrentSettings.Zoom
                  /\ r.CurrentSettings.Zoom =
                        SSGSettings(SettingsPayloads[settingsJson.payload]).Zoom

\* A render has returned with Zoom 2, after frames had been drawn, and the
\* fit it made measured the unzoomed scene.
C4_Witness ==
    /\ clock > 0
    /\ actualStartTime = Undefined
    /\ settingsCallbacks # << >>
    /\ settingsCallbacks[Len(settingsCallbacks)].kind = "zoom"
    /\ systemGroup.scale = 2
    /\ gridGroup.scale = 2
    /\ camera.fitScale = 1
    /\ camera.fitSize > 0

\* C5: when render(T, S) returns, after any history, the subscription list
\* holds |T| + 6 reactions, the orbiter list one orbiter per body of T with
\* OrbitalSemiMajorAxis > 0, each scene exactly the one new group; rendering
\* the same (T, S) again yields the same counts.
C5_RenderRebuildsEverything ==
    \A solarSystemJson \in SystemJsonInputs, settingsJson \in SettingsJsonInputs :
        LET r == render(State, solarSystemJson, settingsJson)
            T == Tree(solarSystemJson.tree)
            r2 == render(r, solarSystemJson, settingsJson)
        IN  ~r.exc =>
              /\ Len(r.settingsCallbacks) = Len(T) + 6
              /\ Kinds(r.settingsCallbacks) =
                    << "fov", "ambient", "directional" >> \o Repeat("body", Len(T))
                    \o << "grid", "view", "zoom" >>
              /\ \A i \in 1..Len(T) :
                    /\ r.settingsCallbacks[3 + i].inst = r.solarSystem.id
                    /\ r.settingsCallbacks[3 + i].node = i
              /\ [i \in 1..Len(r.orbiters) |-> r.orbiters[i].node]
                    = OrbitingBodies(T, 1)
              /\ r.systemSceneGroups = {r.systemGroup.id}
              /\ r.gridSceneGroups = {r.gridGroup.id}
              /\ r.systemGroup.id = r.solarSystem.id
              /\ ~r2.exc
              /\ Len(r2.settingsCallbacks) = Len(r.settingsCallbacks)
              /\ Len(r2.orbiters) = Len(r.orbiters)
              /\ Cardinality(r2.systemSceneGroups) = 1
              /\ Cardinality(r2.gridSceneGroups) = 1

\* A render of the ringed system has returned after frames had been drawn.
C5_Witness ==
    /\ clock > 0
    /\ actualStartTime = Undefined
    /\ solarSystem.tree = "Ringed"
    /\ Len(settingsCallbacks) = Len(Ringed) + 6
    /\ Len(orbiters) = 1
    /\ systemSceneGroups = {systemGroup.id}
    /\ systemGroup.id = solarSystem.id

\* C6: updateSettings publishes once (not at all when its JSON does not parse
\* or the requested controls reset fails) and leaves the tree, the
\* subscription list, the orbiters and the animation times as they were.
C6_UpdateSettingsOnlyPublishes ==
    \A settingsJson \in SettingsJsonInputs :
        LET r == updateSettings(State, settingsJson)
            publishes == Len(SelectSeq(r.trace, IsPublish))
            aborted ==
                \/ ~settingsJson.ok
                \/ /\ SSGSettings(SettingsPayloads[settingsJson.payload]).ResetOrbitControls
                   /\ ~initialized
        IN  /\ publishes = IF aborted THEN 0 ELSE 1
            /\ r.solarSystem = solarSystem
            /\ r.settingsCallbacks = settingsCallbacks
            /\ r.orbiters = orbiters
            /\ r.actualStartTime = actualStartTime
            /\ r.lastActualTime = lastActualTime
            /\ r.simTime = simTime

\* A settings update has changed the zoom of a scene whose orbiters had moved.
C6_Witness ==
    /\ CurrentSettings.Zoom # PrevSettings.Zoom
    /\ systemGroup.scale = CurrentSettings.Zoom
    /\ simTime # Undefined
    /\ \E i \in 1..Len(orbiters) : orbiters[i].currentAngle # 0

\* --------------------------------------------------------- animation clock
\* C7: in every frame the time scale is 0 when the current settings have
\* Animate = false or AnimationSpeed exactly 0, and then the frame leaves
\* simulated time and every orbiter's angle as they were.
C7_PausedFrameAdvancesNothing ==
    \A actualTime \in clock..MaxOrbitTime :
        LET r == updateAnimation(State, actualTime)
        IN  (~CurrentSettings.Animate \/ CurrentSettings.AnimationSpeed = 0) =>
              /\ SpeedScale(CurrentSettings) = 0
              /\ r.simTime = << OrDefault(simTime, 0) >>
              /\ \A i \in 1..Len(orbiters) :
                    r.orbiters[i].currentAngle = orbiters[i].currentAngle

\* ------------------------------------------------------------------ Orbiter
\* C8: every orbiter's currentAngle is at least 0 and below 360 degrees, once
\* built and after every update.
C8_AngleInRange ==
    \A i \in 1..Len(orbiters) :
        0 <= orbiters[i].currentAngle /\ orbiters[i].currentAngle < FullCircle

ElapsedInputs == (0 - MaxOrbitTime)..MaxOrbitTime

TwoUpdates(orbiter, t1, t2) == updatePosition(updatePosition(orbiter, t1), t2)

\* No result of the two updates, of the sum t1 + t2 or of the single update is
\* rounded.
AdditionIsExact(orbiter, t1, t2) ==
    /\ UpdateIsExact(orbiter, t1)
    /\ UpdateIsExact(updatePosition(orbiter, t1), t2)
    /\ FAdd(t1, t2) = t1 + t2
    /\ UpdateIsExact(orbiter, t1 + t2)

\* C9 as stated: updatePosition(t1) then updatePosition(t2) leaves the same
\* currentAngle as updatePosition(t1 + t2).
C9_UpdatesAreAdditive ==
    \A i \in 1..Len(orbiters) : \A t1, t2 \in ElapsedInputs :
        TwoUpdates(orbiters[i], t1, t2).currentAngle
            = updatePosition(orbiters[i], FAdd(t1, t2)).currentAngle

\* C9: updatePosition(t1) then updatePosition(t2) leaves the same currentAngle
\* as updatePosition(t1 + t2) whenever no arithmetic result on the way is
\* rounded.
C9_ExactUpdatesAreAdditive ==
    \A i \in 1..Len(orbiters) : \A t1, t2 \in ElapsedInputs :
        AdditionIsExact(orbiters[i], t1, t2) =>
            TwoUpdates(orbiters[i], t1, t2).currentAngle
                = updatePosition(orbiters[i], FAdd(t1, t2)).currentAngle

\* An orbiter that has moved, and two unrounded updates of it, forwards, that
\* take it past 360 degrees.
C9_Witness ==
    \E i \in 1..Len(orbiters) : \E t1, t2 \in ElapsedInputs :
        /\ orbiters[i].currentAngle > 0
        /\ t1 > 0
        /\ t2 > 0
        /\ AdditionIsExact(orbiters[i], t1, t2)
        /\ orbiters[i].currentAngle
             + orbiters[i].angVelDegPerSecond * (t1 + t2) >= FullCircle
        /\ TwoUpdates(orbiters[i], t1, t2).currentAngle < FullCircle

\* A star with one planet has been rendered, and since then the frames'
\* simulated seconds sum to one period of the planet, 360 / V.
FullPeriodElapsed ==
    /\ solarSystem.tree \in {"TwoBody", "TwoBodyOffset"}
    /\ Len(orbiters) = 1
    /\ simTime # Undefined
    /\ orbiters[1].angVelDegPerSecond # 0
    /\ OrDefault(simTime, 0) * orbiters[1].angVelDegPerSecond = FullCircle

\* The angle render leaves the planet's orbiter at.
AngleAfterRender ==
    LET planet == Tree(solarSystem.tree)[2]
    IN  NewOrbiter(2, planet.InitialOrbitalAngle, planet.OrbitalVelocity).currentAngle

FrameTimes == clock..MaxFrameTime

Count(seq, x) == Cardinality({i \in 1..Len(seq) : seq[i] = x})

\* C11: every frame callback leaves a next frame requested, also when a step
\* of the frame (orbiter update, controls update, draw) raised an error.
C11_FrameAlwaysReschedules ==
    pendingFrames > 0 =>
        \A actualTime \in FrameTimes, fault \in FrameFaults :
            FrameCallback(State, actualTime, fault).pendingFrames = 1

\* C12: at most one frame callback is pending at any time; a frame that returns
\* requests the next one exactly once and as its last step; render and
\* updateSettings request none.
C12_OnePendingFrame ==
    /\ pendingFrames <= 1
    /\ pendingFrames > 0 =>
          \A actualTime \in FrameTimes :
              LET r == FrameCallback(State, actualTime, "none")
              IN  /\ ~r.exc
                  /\ Count(r.trace, "requestFrame") = 1
                  /\ r.trace[Len(r.trace)] = "requestFrame"
                  /\ r.pendingFrames = 1
    /\ \A solarSystemJson \in SystemJson({"TwoBody", "Ringed"}),
          settingsJson \in FrameSettingsJsonInputs :
            LET r == render(State, solarSystemJson, settingsJson)
                u == updateSettings(State, settingsJson)
            IN  /\ r.pendingFrames = pendingFrames
                /\ u.pendingFrames = pendingFrames
                /\ Count(r.trace, "requestFrame") = 0
                /\ Count(u.trace, "requestFrame") = 0

\* A frame has advanced the orbiters of a rendered system and its successor is
\* pending.
C12_Witness ==
    /\ pendingFrames = 1
    /\ clock > 0
    /\ orbiters # << >>
    /\ simTime # Undefined

\* ---------------------------------------------------------- animation state

Idle(m) ==
    /\ m.actualStartTime = Undefined
    /\ m.lastActualTime = Undefined
    /\ m.simTime = Undefined

Running(m) ==
    /\ m.actualStartTime # Undefined
    /\ m.lastActualTime # Undefined
    /\ m.simTime # Undefined

OrbitFrameTimes == clock..MaxOrbitTime

\* C13: the three animation times are undefined together or defined together;
\* they are undefined after every render; the first frame after that defines
\* all three, with simulated time 0; further frames and updateSettings keep
\* them defined.
C13_IdleExactlyAfterRender ==
    /\ Idle(State) \/ Running(State)
    /\ \A solarSystemJson \in OrbitSystemJsonInputs,
          settingsJson \in OrbitSettingsJsonInputs :
            LET r == render(State, solarSystemJson, settingsJson)
            IN  ~r.exc /\ Idle(r)
    /\ \A actualTime \in OrbitFrameTimes :
            LET r == updateAnimation(State, actualTime)
            IN  /\ Running(r)
                /\ Idle(State) => /\ r.simTime = << 0 >>
                                  /\ r.actualStartTime = << actualTime >>
                                  /\ r.lastActualTime = << actualTime >>
    /\ \A settingsJson \in OrbitSettingsJsonInputs :
            LET u == updateSettings(State, settingsJson)
            IN  /\ u.actualStartTime = actualStartTime
                /\ u.lastActualTime = lastActualTime
                /\ u.simTime = simTime

\* A render has made the animation idle again after frames had run.
C13_Witness ==
    /\ Idle(State)
    /\ clock > 0
    /\ orbiters # << >>

\* C14: between two renders lastActualTime never decreases, actualStartTime is
\* at most lastActualTime, and no frame decreases simulated time, whatever the
\* animation speed and time scale of the current settings.
C14_TimesNeverDecrease ==
    Running(State) =>
        /\ actualStartTime[1] <= lastActualTime[1]
        /\ \A actualTime \in OrbitFrameTimes :
              LET r == updateAnimation(State, actualTime)
              IN  /\ r.actualStartTime = actualStartTime
                  /\ r.lastActualTime[1] >= lastActualTime[1]
                  /\ r.simTime[1] >= simTime[1]

\* ------------------------------------------------------------------ look-at

\* The transform node of the body of the live tree that settings.LookAt names.
NamedTarget(m, settings) ==
    LET tree == Tree(m.solarSystem.tree)
        named == {i \in 1..Len(tree) : tree[i].Name = settings.LookAt}
    IN  IF m.solarSystem.id = 0 \/ named = {} THEN NoTarget
        ELSE [inst |-> m.solarSystem.id, node |-> CHOOSE i \in named : TRUE,
              tree |-> m.solarSystem.tree]

LookAtSettingsJsonInputs == SettingsJson({5, 7, 8})

\* C15: after every publish the look-at target is the node of the body whose
\* Name is the published LookAt, and there is none when LookAt is unset or names
\* no body of the tree, whatever the target was before.
C15_LookAtFollowsPublish ==
    /\ \A settingsJson \in LookAtSettingsJsonInputs :
          LET u == updateSettings(State, settingsJson)
          IN  u.lookAtTarget = NamedTarget(u, u.CurrentSettings)
    /\ \A solarSystemJson \in SystemJson({"TwoBody", "Ringed"}),
          settingsJson \in LookAtSettingsJsonInputs :
          LET r == render(State, solarSystemJson, settingsJson)
          IN  r.lookAtTarget = NamedTarget(r, r.CurrentSettings)

\* The same with the settings whose reactions all return.
C15_LookAtFollowsCompletedPublish ==
    /\ \A settingsJson \in FrameSettingsJsonInputs :
          LET u == updateSettings(State, settingsJson)
          IN  u.lookAtTarget = NamedTarget(u, u.CurrentSettings)
    /\ \A solarSystemJson \in SystemJson({"TwoBody", "Ringed"}),
          settingsJson \in FrameSettingsJsonInputs :
          LET r == render(State, solarSystemJson, settingsJson)
          IN  r.lookAtTarget = NamedTarget(r, r.CurrentSettings)

Before(seq, x, y) ==
    \A i, j \in 1..Len(seq) : (seq[i] = x /\ seq[j] = y) => i < j

\* C16: a frame that runs with a look-at target sets the orbit-control target
\* to the world position the target has once every orbiter has been advanced
\* in that frame, and does so before the two draws.
C16_FrameAimsAtAdvancedTarget ==
    (pendingFrames > 0 /\ initialized /\ lookAtTarget.node # 0) =>
        \A actualTime \in FrameTimes :
            LET r == FrameCallback(State, actualTime, "none")
            IN  /\ r.lookAtTarget = lookAtTarget
                /\ r.orbitControls.target = WorldPosition(r, r.lookAtTarget)
                /\ Count(r.trace, "controls") = 1
                /\ Count(r.trace, "draw") = 2
                /\ Before(r.trace, "orbiter", "controls")
                /\ Before(r.trace, "controls", "draw")

\* The controls are aimed at a look-at target that a frame has moved along its
\* orbit.
C16_Witness ==
    /\ initialized
    /\ lookAtTarget.node # 0
    /\ AngleOf(State, lookAtTarget.node) # 0
    /\ orbitControls.target = WorldPosition(State, lookAtTarget)
    /\ orbitControls.target # Origin

\* ------------------------------------------------------------ camera fitter

\* C17: after a camera fit the orbit-control target is the world position of
\* the look-at target when one is set, and the centre of the bounding box of
\* the built scene otherwise.
C17_FitTargetsLookAtOrCenter ==
    initialized =>
        \A solarSystemJson \in SystemJsonInputs, settingsJson \in SettingsJsonInputs :
            LET r == render(State, solarSystemJson, settingsJson)
            IN  (~r.exc /\ r.systemGroup.scale = r.camera.fitScale) =>
                    IF r.lookAtTarget.node # 0
                    THEN r.orbitControls.target = WorldPosition(r, r.lookAtTarget)
                    ELSE 2 * XOf(r.orbitControls.target) = Center2(BoundingBox(r))

LastIndex(seq, x) ==
    LET at == {i \in 1..Len(seq) : seq[i] = x}
    IN  IF at = {} THEN 0 ELSE SetMax(at)

\* C18: a publish that changes the look-at target, the star or planet scale or
\* the zoom is followed by a camera fit, through updateSettings as well as
\* through render.
C18_FitFollowsStructuralChange ==
    solarSystem.id # 0 =>
        \A settingsJson \in SettingsJsonInputs :
            LET u == updateSettings(State, settingsJson)
                changed == \/ u.lookAtTarget # lookAtTarget
                           \/ u.CurrentSettings.StarScale # CurrentSettings.StarScale
                           \/ u.CurrentSettings.PlanetScale # CurrentSettings.PlanetScale
                           \/ u.CurrentSettings.Zoom # CurrentSettings.Zoom
            IN  (~u.exc /\ changed) =>
                    LastIndex(u.trace, "fit") > LastIndex(u.trace, "publish")

\* --------------------------------------------------------------- input errors

\* The live state a failed call must not touch.
LiveState(m) ==
    [settingsCallbacks |-> m.settingsCallbacks,
     systemGroup |-> m.systemGroup,
     attached |-> m.systemGroup.id \in m.systemSceneGroups,
     orbiters |-> m.orbiters,
     actualStartTime |-> m.actualStartTime,
     lastActualTime |-> m.lastActualTime,
     simTime |-> m.simTime,
     CurrentSettings |-> m.CurrentSettings,
     PrevSettings |-> m.PrevSettings]

\* C19: a render or updateSettings whose system or settings JSON is malformed
\* throws and leaves subscriptions, attached system group, orbiters, animation
\* times and current and previous settings as they were.
C19_MalformedInputChangesNothing ==
    /\ LET u == updateSettings(State, MalformedSettingsJson)
       IN  u.exc /\ LiveState(u) = LiveState(State)
    /\ \A solarSystemJson \in SystemJsonInputs, settingsJson \in SettingsJsonInputs :
          (~solarSystemJson.ok \/ ~settingsJson.ok) =>
              LET r == render(State, solarSystemJson, settingsJson)
              IN  r.exc /\ LiveState(r) = LiveState(State)

\* The same for the calls that fail before they have changed anything:
\* updateSettings, and render with a malformed system description.
C19_EarlyFailureChangesNothing ==
    /\ LET u == updateSettings(State, MalformedSettingsJson)
       IN  u.exc /\ LiveState(u) = LiveState(State)
    /\ \A settingsJson \in SettingsJsonInputs :
          LET r == render(State, MalformedSystemJson, settingsJson)
          IN  r.exc /\ LiveState(r) = LiveState(State)

\* ---------------------------------------------------------- background image

\* The published background needs a fetch (a new image URL) or processing (new
\* filter values for the cached image).
NeedsBackgroundWork(m, image) ==
    /\ image.URL # ""
    /\ ~IsColor(image.URL)
    /\ image.URL # m.bg.lastBGUrl \/ image.Filters # m.bg.lastBGSettings

\* What a call that published leaves when its background needs work: it has
\* returned, every subscribed reaction was invoked, the background is the one
\* from before the call, one more reaction is suspended, and a frame that runs
\* now advances the orbiters and draws, leaving the background alone.
PublishDoesNotWait(before, after) ==
    /\ ~after.exc
    /\ after.lastPublish.invoked = after.lastPublish.list
    /\ after.bg.background = before.bg.background
    /\ Len(after.bg.tasks) > Len(before.bg.tasks)
    /\ after.pendingFrames = 1
    /\ \A actualTime \in after.clock..(after.clock + 1) :
          LET f == FrameCallback([after EXCEPT !.trace = << >>], actualTime, "none")
          IN  /\ ~f.exc
              /\ f.bg = after.bg
              /\ Count(f.trace, "draw") = 2
              /\ f.pendingFrames = 1
              /\ f.orbiters = AdvanceOrbiters(after,
                                  FMul(FSub(actualTime,
                                            OrDefault(after.lastActualTime, actualTime)),
                                       SpeedScale(after.CurrentSettings))).orbiters

\* C20: a publish whose background needs a fetch or processing returns without
\* the new background, after the other reactions have run; frames keep
\* advancing orbiters and drawing while the work is pending; the background is
\* assigned by a later step of the suspended reaction.
C20_BackgroundDoesNotBlock ==
    /\ \A settingsJson \in BgSettingsJsonInputs :
          LET image == SettingsPayloads[settingsJson.payload].BackgroundImage
              u == updateSettings(State, settingsJson)
              r == render(State, [ok |-> TRUE, tree |-> "TwoBody"], settingsJson)
          IN  /\ (settingsCallbacks # << >> /\ NeedsBackgroundWork(State, image))
                    => PublishDoesNotWait(State, u)
              /\ NeedsBackgroundWork(State, image) => PublishDoesNotWait(State, r)
    /\ \A k \in 1..Len(bg.tasks) :
          LET c == ResumeBackground(State, k)
          IN  c.bg.background # bg.background => bg.tasks[k].stage = "encode"

\* Frames have moved the planet and drawn an earlier image while a later
\* background request is still pending.
C20_Witness ==
    /\ bg.tasks # << >>
    /\ bg.background \notin {NoBackground, SceneColor("#000011")}
    /\ clock > 0
    /\ \E i \in 1..Len(orbiters) : orbiters[i].currentAngle # 0

\* Every way the suspended reactions of a state can run to completion: the
\* background finally shown, with the URL of the fetch that resolved last.
RECURSIVE Outcomes(_, _)
Outcomes(m, lastFetched) ==
    IF m.bg.tasks = << >>
    THEN {[background |-> m.bg.background, lastFetched |-> lastFetched]}
    ELSE UNION { Outcomes(ResumeBackground(m, k),
                          IF m.bg.tasks[k].stage = "read"
                          THEN m.bg.tasks[k].image.URL ELSE lastFetched) :
                 k \in 1..Len(m.bg.tasks) }

\* Pairs of snapshots that name two different images.
ImagePairs ==
    {pq \in BgSettingsJsonInputs \X BgSettingsJsonInputs :
        LET A == SettingsPayloads[pq[1].payload].BackgroundImage
            B == SettingsPayloads[pq[2].payload].BackgroundImage
        IN  ~IsColor(A.URL) /\ ~IsColor(B.URL) /\ A.URL # B.URL}

\* C21: when publish A and then publish B change the image URL while A's fetch
\* is in flight, the background finally shown is that of the fetch that
\* resolved last, in either order and with equal or different filter values.
C21_LastResolvedFetchWins ==
    (settingsCallbacks # << >> /\ bg.tasks = << >>) =>
        \A pq \in ImagePairs :
            LET A == SettingsPayloads[pq[1].payload].BackgroundImage
                B == SettingsPayloads[pq[2].payload].BackgroundImage
                b == updateSettings(updateSettings(State, pq[1]), pq[2])
            IN  (A.URL # bg.lastBGUrl /\ B.URL # bg.lastBGUrl) =>
                    \A o \in Outcomes(b, "undefined") :
                        o.background.image = o.lastFetched

\* The same for the schedules in which neither the filter values nor the
\* encodings get in the way: A and B differ in their filter values and each
\* encoding completes before the next fetch resolves.
RECURSIVE EagerOutcomes(_, _)
EagerOutcomes(m, lastFetched) ==
    IF m.bg.tasks = << >>
    THEN {[background |-> m.bg.background, lastFetched |-> lastFetched]}
    ELSE LET encodes == {k \in 1..Len(m.bg.tasks) : m.bg.tasks[k].stage = "encode"}
             ready == IF encodes # {} THEN encodes ELSE 1..Len(m.bg.tasks)
         IN  UNION { EagerOutcomes(ResumeBackground(m, k),
                                   IF m.bg.tasks[k].stage = "read"
                                   THEN m.bg.tasks[k].image.URL ELSE lastFetched) :
                     k \in ready }

C21_LastResolvedFetchWinsWhenFiltersDiffer ==
    (settingsCallbacks # << >> /\ bg.tasks = << >>) =>
        \A pq \in ImagePairs :
            LET A == SettingsPayloads[pq[1].payload].BackgroundImage
                B == SettingsPayloads[pq[2].payload].BackgroundImage
                b == updateSettings(updateSettings(State, pq[1]), pq[2])
            IN  (A.URL # bg.lastBGUrl /\ B.URL # bg.lastBGUrl
                 /\ A.Filters # B.Filters /\ A.Filters # bg.lastBGSettings) =>
                    \A o \in EagerOutcomes(b, "undefined") :
                        o.background.image = o.lastFetched

\* A snapshot whose image has to be fetched.
NeedsFetch(m, image) ==
    image.URL # "" /\ ~IsColor(image.URL) /\ image.URL # m.bg.lastBGUrl

\* C22: when the image fetch of a publish fails, the remaining reactions of
\* that publish have run, the background is still the one shown before the
\* publish, and frames go on being drawn and scheduled.
C22_FetchFailureKeepsBackground ==
    settingsCallbacks # << >> =>
        \A settingsJson \in BgSettingsJsonInputs :
            LET image == SettingsPayloads[settingsJson.payload].BackgroundImage
                u == updateSettings(State, settingsJson)
                failed == FailBackground(u, Len(u.bg.tasks))
            IN  NeedsFetch(State, image) =>
                  /\ ~u.exc
                  /\ u.lastPublish.invoked = u.lastPublish.list
                  /\ u.bg.tasks[Len(u.bg.tasks)] = [stage |-> "read", image |-> image]
                  /\ ~failed.exc
                  /\ failed.bg = bg
                  /\ failed.pendingFrames = 1
                  /\ \A actualTime \in failed.clock..(failed.clock + 1) :
                        LET f == FrameCallback([failed EXCEPT !.trace = << >>],
                                               actualTime, "none")
                        IN  /\ ~f.exc
                            /\ f.bg = bg
                            /\ Count(f.trace, "draw") = 2
                            /\ f.pendingFrames = 1

\* The fetch of the current image failed while an earlier image was shown;
\* that image is still the background and frames have run since.
C22_Witness ==
    /\ bg.tasks = << >>
    /\ CurrentSettings.BackgroundImage.URL \notin {"", bg.lastBGUrl}
    /\ ~IsColor(CurrentSettings.BackgroundImage.URL)
    /\ bg.lastBGUrl # "undefined"
    /\ bg.background.image = bg.lastBGUrl
    /\ simTime # Undefined
    /\ pendingFrames = 1

\* The settings object a call builds from its text.
Parsed(settingsJson) == SSGSettings(SettingsPayloads[settingsJson.payload])

\* The indices of the steps named x in a call's log.
Steps(seq, x) == {i \in 1..Len(seq) : seq[i] = x}

\* C23: a render or updateSettings call whose settings ask for a reset resets
\* the orbit controls once and clears the flag right after: when the call
\* returns CurrentSettings.ResetOrbitControls is false, the publish that
\* follows the reset passes the flag as false, and neither a frame nor a
\* publish that does not ask for it resets the controls again.
C23_ResetConsumedOnce ==
    /\ \A settingsJson \in ControlsSettingsJsonInputs :
          LET r == render([State EXCEPT !.trace = << >>],
                          [ok |-> TRUE, tree |-> "TwoBody"], settingsJson)
              u == updateSettings([State EXCEPT !.trace = << >>], settingsJson)
          IN  Parsed(settingsJson).ResetOrbitControls =>
                /\ Count(r.trace, "reset") <= 1
                /\ Count(u.trace, "reset") <= 1
                /\ ~r.exc =>
                      /\ Count(r.trace, "reset") = 1
                      /\ Count(r.trace, "publish") = 2
                      /\ \E i \in Steps(r.trace, "reset") :
                            Steps(r.trace, "publish") \cap (i..Len(r.trace)) # {}
                      /\ ~r.lastPublish.arg.ResetOrbitControls
                      /\ ~r.CurrentSettings.ResetOrbitControls
                      /\ r.orbitControls.saved = orbitControls.saved
                /\ ~u.exc =>
                      /\ Count(u.trace, "reset") = 1
                      /\ Before(u.trace, "reset", "publish")
                      /\ ~u.lastPublish.arg.ResetOrbitControls
                      /\ ~u.CurrentSettings.ResetOrbitControls
    /\ \A settingsJson \in ControlsSettingsJsonInputs :
          ~Parsed(settingsJson).ResetOrbitControls =>
              /\ Count(updateSettings([State EXCEPT !.trace = << >>],
                                      settingsJson).trace, "reset") = 0
              /\ Count(render([State EXCEPT !.trace = << >>],
                              [ok |-> TRUE, tree |-> "TwoBody"],
                              settingsJson).trace, "reset") = 0
    /\ pendingFrames > 0 =>
          \A actualTime \in clock..MaxFrameTime :
              Count(FrameCallback([State EXCEPT !.trace = << >>],
                                  actualTime, "none").trace, "reset") = 0

\* A call that asked for a reset has returned with the flag cleared, frames
\* have run since, and a render that asks for a reset returns from here.
C23_Witness ==
    /\ CurrentSettings =
          [Parsed([ok |-> TRUE, payload |-> 2]) EXCEPT !.ResetOrbitControls = FALSE]
    /\ simTime # Undefined
    /\ ~render(State, [ok |-> TRUE, tree |-> "TwoBody"],
               [ok |-> TRUE, payload |-> 2]).exc

\* 1 for a snapshot that asks for an export, 0 for any other.
Flagged(settingsJson) == IF Parsed(settingsJson).DownloadImage THEN 1 ELSE 0

\* C24: every snapshot published with DownloadImage = true triggers exactly one
\* export, in the first frame after its publish, whatever calls come between
\* the publish and that frame; the flag is false afterwards and the frame
\* after that one exports nothing.
C24_EveryFlaggedPublishExportsOnce ==
    (settingsCallbacks # << >> /\ initialized) =>
        \A first \in ExportSettingsJsonInputs, second \in ExportSettingsJsonInputs :
            LET a == updateSettings(State, first)
                b == updateSettings(a, second)
            IN  \A actualTime \in b.clock..(b.clock + 1) :
                    LET f == FrameCallback([b EXCEPT !.trace = << >>],
                                           actualTime, "none")
                        g == FrameCallback([f EXCEPT !.trace = << >>],
                                           actualTime, "none")
                    IN  /\ Count(f.trace, "export") = Flagged(first) + Flagged(second)
                        /\ ~f.CurrentSettings.DownloadImage
                        /\ Count(g.trace, "export") = 0

\* What the frames do: a frame exports once when the current snapshot has the
\* flag set and not otherwise, after its two draws, and leaves the flag false;
\* the first frame after a single publish or render with the flag exports.
C24_FrameExportsCurrentFlagOnce ==
    /\ pendingFrames > 0 =>
          \A actualTime \in clock..(clock + 1) :
              LET f == FrameCallback(State, actualTime, "none")
              IN  /\ Count(f.trace, "export") =
                        (IF CurrentSettings.DownloadImage THEN 1 ELSE 0)
                  /\ Before(f.trace, "draw", "export")
                  /\ ~f.CurrentSettings.DownloadImage
    /\ \A settingsJson \in ExportSettingsJsonInputs :
          LET u == updateSettings(State, settingsJson)
              r == render(State, [ok |-> TRUE, tree |-> "TwoBody"], settingsJson)
          IN  /\ ~u.exc => u.CurrentSettings.DownloadImage = (Flagged(settingsJson) = 1)
              /\ ~r.exc => r.CurrentSettings.DownloadImage = (Flagged(settingsJson) = 1)

\* C25: a snapshot that has been passed to publishSettings keeps its field
\* values.  A frame publishes nothing, so it leaves Current and Previous as they
\* are; updateSettings leaves as Previous the snapshot that was Current and as
\* Current the snapshot it published; render publishes one snapshot twice, so
\* it leaves that snapshot, as it was first published, as both.
C25_PublishedSnapshotsImmutable ==
    /\ pendingFrames > 0 =>
          \A actualTime \in clock..(clock + 1) :
              LET f == FrameCallback(State, actualTime, "none")
              IN  /\ f.CurrentSettings = CurrentSettings
                  /\ f.PrevSettings = PrevSettings
    /\ \A settingsJson \in ExportSettingsJsonInputs :
          LET u == updateSettings(State, settingsJson)
              r == render(State, [ok |-> TRUE, tree |-> "TwoBody"], settingsJson)
          IN  /\ ~u.exc => /\ u.PrevSettings = CurrentSettings
                           /\ u.CurrentSettings = u.lastPublish.arg
              /\ ~r.exc => /\ r.CurrentSettings = Parsed(settingsJson)
                           /\ r.PrevSettings = Parsed(settingsJson)

\* The same without the two fields the program writes to after a publish.
Unflagged(settings) ==
    [settings EXCEPT !.ResetOrbitControls = FALSE, !.DownloadImage = FALSE]

C25_OtherFieldsImmutable ==
    /\ pendingFrames > 0 =>
          \A actualTime \in clock..(clock + 1) :
              LET f == FrameCallback(State, actualTime, "none")
              IN  /\ Unflagged(f.CurrentSettings) = Unflagged(CurrentSettings)
                  /\ Unflagged(f.PrevSettings) = Unflagged(PrevSettings)
                  /\ f.PrevSettings # PrevSettings => prevIsCurrent
    /\ \A settingsJson \in ExportSettingsJsonInputs :
          LET u == updateSettings(State, settingsJson)
              r == render(State, [ok |-> TRUE, tree |-> "TwoBody"], settingsJson)
          IN  /\ ~u.exc => /\ u.PrevSettings = CurrentSettings
                           /\ u.CurrentSettings = u.lastPublish.arg
              /\ ~r.exc =>
                    /\ Unflagged(r.CurrentSettings) = Unflagged(Parsed(settingsJson))
                    /\ r.PrevSettings = r.CurrentSettings
                    /\ r.prevIsCurrent

\* The groups a group is a child of, and the groups above it.
ParentsIn(graph, group) == {e[1] : e \in {x \in graph : x[2] = group}}

RECURSIVE AncestorsIn(_, _)
AncestorsIn(graph, group) ==
    ParentsIn(graph, group)
    \cup UNION {AncestorsIn(graph, parent) : parent \in ParentsIn(graph, group)}

\* The state with orbiter i a quarter turn further along its orbit.
OrbiterMoved(m, i) ==
    [m EXCEPT !.orbiters[i].currentAngle = (@ + FullCircle \div 4) % FullCircle]

\* C26: in the hierarchy built for the tree, each body's object-geometry group
\* is the child of its own root group and each child's root group is a child
\* of its parent's object-geometry group, so a body at depth d lies under d
\* (root group, object-geometry group) levels; an orbiter that moves a body's
\* object-geometry group moves that body and its descendants, and nothing else.
C26_ChildFramesNestInParentGeometryGroup ==
    solarSystem.tree # "null" =>
        LET tree == Tree(solarSystem.tree)
            graph == SceneGraph(tree, 1)
            Above(node) == AncestorsIn(graph, ObjectGroup(node))
        IN  /\ \A node \in 1..Len(tree) :
                  /\ ParentsIn(graph, ObjectGroup(node)) = {RootGroup(node)}
                  /\ ParentsIn(graph, RootGroup(node)) =
                        IF tree[node].ParentObject = 0 THEN {}
                        ELSE {ObjectGroup(tree[node].ParentObject)}
                  /\ Cardinality(Above(node) \cup {ObjectGroup(node)})
                        = 2 * Len(PathTo(tree, node))
                  /\ Above(node) \cup {ObjectGroup(node)} =
                        UNION { {RootGroup(PathTo(tree, node)[k]),
                                 ObjectGroup(PathTo(tree, node)[k])} :
                                k \in 1..Len(PathTo(tree, node)) }
            /\ \A i \in 1..Len(orbiters), node \in 1..Len(tree) :
                  (ObjectGroup(orbiters[i].node)
                        \in Above(node) \cup {ObjectGroup(node)})
                  <=> (WorldPositionIn(OrbiterMoved(State, i), tree, node)
                        # WorldPositionIn(State, tree, node))

\* A tree of depth 3 is built and frames have moved its planet.
C26_Witness ==
    /\ solarSystem.tree = "Ringed"
    /\ obj3D[3].kind = "ring"
    /\ \E i \in 1..Len(orbiters) : orbiters[i].currentAngle # 0

\* The nodes whose reaction the latest publish of a call invoked.
Reacted(m) ==
    {m.lastPublish.invoked[k].node :
        k \in {j \in 1..Len(m.lastPublish.invoked) :
                  m.lastPublish.invoked[j].kind = "body"}}

\* What C27 says of one body after a publish that reached its reaction.
GeometryByDescriptor(m, node) ==
    LET tree == Tree(m.solarSystem.tree)
        body == tree[node]
        kind == m.obj3D[node].kind
        ringAttributes == /\ body.RingInnerRadius > 0
                          /\ body.RingColor # "none"
                          /\ body.ParentObject # 0
        groups == {e[1] : e \in SceneGraph(tree, 1)} \cup {e[2] : e \in SceneGraph(tree, 1)}
    IN  /\ kind \in {"star", "planet"} <=> body.ObjectRadius > 0
        /\ kind = "ring" <=> (~(body.ObjectRadius > 0) /\ ringAttributes)
        /\ kind = "none" <=> (~(body.ObjectRadius > 0) /\ ~ringAttributes)
        /\ kind = "none" => m.objectGroups[node] = << >>
        /\ {RootGroup(node), ObjectGroup(node)} \subseteq groups
        /\ body.Name = m.CurrentSettings.LookAt =>
              m.lookAtTarget = [inst |-> m.solarSystem.id, node |-> node,
                                tree |-> m.solarSystem.tree]

BuiltWith(m, node, settings) ==
    LET tree == Tree(m.solarSystem.tree)
        kind == BodyGeometry(tree[node])
    IN  IF kind = "none" THEN << >>
        ELSE << Geometry(kind, GeometryScale(tree, tree[node], settings)) >>

RECURSIVE Follows(_, _, _)
Follows(tree, node, partialObj) ==
    /\ tree[node].Name = partialObj.Name
    /\ Len(tree[node].ChildObjects) = Len(partialObj.ChildObjects)
    /\ \A k \in 1..Len(partialObj.ChildObjects) :
          Follows(tree, tree[node].ChildObjects[k], partialObj.ChildObjects[k])

\* The bodies that list a node among their ChildObjects.
ListedBy(tree, node) ==
    {b \in 1..Len(tree) :
        \E k \in 1..Len(tree[b].ChildObjects) : tree[b].ChildObjects[k] = node}

\* C29: in the tree constructed from a descriptor every body listed in b's
\* ChildObjects has ParentObject b, the root has no parent, the children are in
\* the descriptor's order; the tree the renderer holds is that tree, and
\* publishes, reactions and frames leave it as constructed.
C29_ParentLinksMatchChildLists ==
    /\ \A name \in TreeNames \cup {"Placeholders"} :
          LET tree == CelestialObject(DescriptorOf(name), 1)
          IN  /\ tree = Tree(name)
              /\ tree[1].ParentObject = 0
              /\ Follows(tree, 1, DescriptorOf(name))
              /\ \A b \in 1..Len(tree) :
                    /\ \A k \in 1..Len(tree[b].ChildObjects) :
                          tree[tree[b].ChildObjects[k]].ParentObject = b
                    /\ ListedBy(tree, b) =
                          IF b = 1 THEN {} ELSE {tree[b].ParentObject}
    /\ \A settingsJson \in GeometrySettingsJsonInputs :
          updateSettings(State, settingsJson).solarSystem = solarSystem
    /\ pendingFrames > 0 =>
          \A actualTime \in clock..(clock + 1) :
              FrameCallback(State, actualTime, "none").solarSystem = solarSystem
    /\ \A solarSystemJson \in SystemJson({"Ringed", "Placeholders"}),
          settingsJson \in GeometrySettingsJsonInputs :
          render(State, solarSystemJson, settingsJson).solarSystem.tree
              = solarSystemJson.tree

\* The tree with three children under its root has been built, published to
\* and animated.
C29_Witness ==
    /\ solarSystem.tree = "Placeholders"
    /\ simTime # Undefined
    /\ PrevSettings # CurrentSettings
    /\ \E i \in 1..Len(orbiters) : orbiters[i].currentAngle # 0

\* The numbers the program holds in a state: the animation settings, the
\* frame times and the orbiters' angles and velocities.
NumbersHeld ==
    {CurrentSettings.AnimationSpeed, CurrentSettings.AnimationTimeScale, clock,
     OrDefault(simTime, 0), OrDefault(lastActualTime, 0)}
    \cup {orbiters[i].currentAngle : i \in 1..Len(orbiters)}
    \cup {orbiters[i].angVelDegPerSecond : i \in 1..Len(orbiters)}

\* C30: FloatEQ(x, x) is true for every finite x, x = 0 included, with the
\* default epsilon.
C30_FloatEQReflexive ==
    \A x \in NumbersHeld : FloatEQ(x, x)

\* The same for every x other than 0.
C30_FloatEQReflexiveExceptZero ==
    \A x \in NumbersHeld \ {0} : FloatEQ(x, x) /\ ~FloatNE(x, x)

\* How many of the three comparisons hold for a pair.
Verdicts(a, b) ==
    Cardinality({c \in {"LT", "EQ", "GT"} :
                    \/ c = "LT" /\ FloatLT(a, b)
                    \/ c = "EQ" /\ FloatEQ(a, b)
                    \/ c = "GT" /\ FloatGT(a, b)})

\* C31: for any two finite values, of any signs, zeros and equal values
\* included, exactly one of FloatLT, FloatEQ and FloatGT is true.
C31_ComparisonsPartition ==
    \A a \in NumbersHeld, b \in NumbersHeld \cup {0 - x : x \in NumbersHeld} :
        Verdicts(a, b) = 1

\* The same for every pair other than (0, 0), with the verdict that the
\* values' order gives when they are not within epsilon of each other.
C31_ComparisonsPartitionExceptZeros ==
    \A a \in NumbersHeld, b \in NumbersHeld \cup {0 - x : x \in NumbersHeld} :
        (a # 0 \/ b # 0) =>
            /\ Verdicts(a, b) = 1
            /\ a = b => FloatEQ(a, b)
            /\ FloatLT(a, b) => a < b
            /\ FloatGT(a, b) => a > b

\* ------------------------------------------------------------ system time
\* systemTimeElement.innerText after a frame: humanTime(this.simTime).
SystemTime == humanTime(simTime[1])

\* The seconds in one of each unit.
RECURSIVE UnitSeconds(_)
UnitSeconds(scaled) ==
    IF scaled = 0 THEN 1 ELSE ScaleFactors[scaled] * UnitSeconds(scaled - 1)

\* The units a simulated clock of less than a decade can be shown in.
ClockUnits == 0..(Len(ScaleFactors) - 1)

\* The largest unit in which a duration's magnitude is at least 1.
LargestUnit(totalSeconds) ==
    CHOOSE u \in ClockUnits :
        /\ u = 0 \/ Abs(totalSeconds) >= UnitSeconds(u)
        /\ \A v \in ClockUnits : v > u => Abs(totalSeconds) < UnitSeconds(v)

\* C32: the system time is shown in the largest unit in which its magnitude
\* is at least 1, so a duration of exactly one unit boundary reads 1.000 of
\* the larger unit in the singular, and a negative duration carries a minus.
C32_HumanTimeLargestUnit ==
    simTime # Undefined =>
        /\ SystemTime.unit = Units[LargestUnit(simTime[1]) + 1]
        /\ SystemTime.minus = (simTime[1] < 0)
        /\ simTime[1] = 60 =>
               SystemTime = [minus |-> FALSE, thousandths |-> 1000,
                             unit |-> "minute", suffix |-> ""]

\* What is shown: the largest unit that the magnitude exceeds, with no sign.
C32_HumanTimeUnitExceeded ==
    simTime # Undefined =>
        LET t == Abs(simTime[1])
            u == CHOOSE u \in ClockUnits :
                    /\ u = 0 \/ t > UnitSeconds(u)
                    /\ \A v \in ClockUnits : v > u => t <= UnitSeconds(v)
        IN  /\ SystemTime.unit = Units[u + 1]
            /\ ~SystemTime.minus
            /\ SystemTime.thousandths = ToFixed3(t, UnitSeconds(u))
            /\ simTime[1] = 59 =>
                   SystemTime = [minus |-> FALSE, thousandths |-> 59000,
                                 unit |-> "second", suffix |-> "s"]
            /\ simTime[1] \in {60, -60} =>
                   SystemTime = [minus |-> FALSE, thousandths |-> 60000,
                                 unit |-> "second", suffix |-> "s"]
            /\ simTime[1] = 3600 =>
                   SystemTime = [minus |-> FALSE, thousandths |-> 60000,
                                 unit |-> "minute", suffix |-> "s"]
            /\ simTime[1] > 3600 /\ simTime[1] <= 86400 =>
                   SystemTime.unit = "hour"
            /\ simTime[1] \in {60, -60} =>
                   humanTimeSigned(simTime[1]) =
                       [minus |-> simTime[1] < 0, thousandths |-> 60000,
                        unit |-> "seconds", suffix |-> "s"]

\* ------------------------------------------------------------ ring shadows
\* In a sequence of callbacks, the reaction of every body that has a parent
\* comes after the reaction of that parent.
ParentsFirst(cbs) ==
    \A i \in 1..Len(cbs) :
        (cbs[i].kind = "body" /\ Tree(cbs[i].tree)[cbs[i].node].ParentObject # 0) =>
            \E j \in 1..(i - 1) :
                /\ cbs[j].kind = "body"
                /\ cbs[j].inst = cbs[i].inst
                /\ cbs[j].node = Tree(cbs[i].tree)[cbs[i].node].ParentObject

\* The planets that are parents of a built ring cast shadows.
RingParentsCastShadow(m) ==
    LET tree == Tree(m.solarSystem.tree)
    IN  \A node \in 1..Len(m.obj3D) :
            (/\ m.obj3D[node].kind = "ring"
             /\ ~tree[tree[node].ParentObject].IsStar
             /\ m.obj3D[tree[node].ParentObject] # NoGeometry) =>
                m.castShadow[tree[node].ParentObject]

\* C33: reactions of bodies are subscribed, and so invoked by every publish,
\* parent before child; when a ring's reaction runs its parent's geometry of
\* that publish is built already, and after the publish a planet that is the
\* parent of a built ring casts shadows from its current geometry.
C33_RingsFollowParents ==
    /\ ParentsFirst(settingsCallbacks)
    /\ RingParentsCastShadow(State)
    /\ \A node \in 1..Len(castShadow) :
          castShadow[node] => obj3D[node].kind = "planet"
    /\ \A settingsJson \in GeometrySettingsJsonInputs :
          LET u == updateSettings(State, settingsJson)
          IN  /\ ParentsFirst(u.lastPublish.invoked)
              /\ RingParentsCastShadow(u)

\* A ringed planet has been rebuilt by a publish after the one that first
\* built it, and casts shadows.
C33_Witness ==
    /\ solarSystem.tree = "Ringed"
    /\ ~DirectionalLightPositionThrows(PrevSettings)
    /\ PrevSettings.PlanetScale = 1
    /\ CurrentSettings.PlanetScale = 2
    /\ obj3D[2] = Geometry("planet", 2)
    /\ obj3D[3].kind = "ring"
    /\ castShadow[2]

\* ------------------------------------------------------------ idempotence
\* What is seen: the geometry of the bodies, the grid, the lights, the rotation
\* and scale of the two groups and the look-at target.
Visual(m) ==
    [obj3D |-> m.obj3D, objectGroups |-> m.objectGroups,
     castShadow |-> m.castShadow, gridGroup |-> m.gridGroup, lights |-> m.lights,
     systemGroup |-> m.systemGroup, lookAtTarget |-> m.lookAtTarget]

\* C34: after a render, publishing a snapshot a second time through
\* updateSettings leaves what is seen as the first publish left it, also when
\* the snapshot changes Zoom and enables a grid.
C34_RepublishChangesNothing ==
    solarSystem.id # 0 =>
        \A settingsJson \in GridSettingsJsonInputs :
            LET once == updateSettings(State, settingsJson)
                twice == updateSettings(once, settingsJson)
            IN  Visual(twice) = Visual(once)

\* The same, apart from the size of the grid when the publish changes Zoom:
\* the first publish measures the system group at the zoom it had, the second
\* at the zoom the first one has set.
C34_RepublishChangesGridSizeOnly ==
    solarSystem.id # 0 =>
        \A settingsJson \in GridSettingsJsonInputs :
            LET once == updateSettings(State, settingsJson)
                twice == updateSettings(once, settingsJson)
                zoomed == Parsed(settingsJson).Zoom # systemGroup.scale
                gridded == once.gridGroup.children # << >>
            IN  /\ [Visual(twice) EXCEPT !.gridGroup.children = << >>]
                      = [Visual(once) EXCEPT !.gridGroup.children = << >>]
                /\ Len(twice.gridGroup.children) = Len(once.gridGroup.children)
                /\ gridded =>
                      /\ twice.gridGroup.children[1].type
                            = once.gridGroup.children[1].type
                      /\ once.gridGroup.children[1].size
                            = Extent(BoxOf(GroupIntervals(
                                  [once EXCEPT !.systemGroup = systemGroup])))
                      /\ twice.gridGroup.children[1].size
                            = Extent(BoxOf(GroupIntervals(once)))
                      /\ twice.gridGroup.children[1].size * systemGroup.scale
                            = once.gridGroup.children[1].size
                                 * Parsed(settingsJson).Zoom
                /\ ~(zoomed /\ gridded) => Visual(twice) = Visual(once)

\* ------------------------------------------------------------ grid meshes
\* Snapshots with and without a grid, and one whose light position throws.
GridPublishes == GridSettingsJsonInputs \cup SettingsJson({13})

GridWanted(settings) == settings.GridType \in {"Rectangular", "Polar"}

\* C40: after every publish the grid group holds at most one grid mesh, and
\* holds none exactly when the snapshot's GridType is unset, "None" or neither
\* Rectangular nor Polar; meshes of earlier publishes do not accumulate.
C40_GridFollowsSnapshot ==
    /\ Len(gridGroup.children) <= 1
    /\ solarSystem.id # 0 =>
          \A settingsJson \in GridPublishes :
              LET u == updateSettings(State, settingsJson)
              IN  /\ Len(u.gridGroup.children) <= 1
                  /\ u.gridGroup.children = << >> <=> ~GridWanted(Parsed(settingsJson))

\* The same for the publishes that reach the grid reaction; a publish that
\* does not reach it leaves the grid of the publish before.
C40_GridFollowsReaction ==
    /\ Len(gridGroup.children) <= 1
    /\ solarSystem.id # 0 =>
          \A settingsJson \in GridPublishes :
              LET u == updateSettings(State, settingsJson)
                  reached == \E k \in 1..Len(u.lastPublish.invoked) :
                                 u.lastPublish.invoked[k].kind = "grid"
              IN  /\ Len(u.gridGroup.children) <= 1
                  /\ reached <=> ~DirectionalLightPositionThrows(Parsed(settingsJson))
                  /\ reached =>
                        /\ u.gridGroup.children = << >>
                              <=> ~GridWanted(Parsed(settingsJson))
                        /\ GridWanted(Parsed(settingsJson)) =>
                              u.gridGroup.children[1].type
                                 = Parsed(settingsJson).GridType
                  /\ ~reached => u.gridGroup = gridGroup

\* ------------------------------------------------------------ background URL
\* C35: after a publish whose background URL differs from the URL of the
\* background displayed, when all asynchronous work has completed and nothing
\* else was published, the background displayed is derived from that URL,
\* also when the filter values are unchanged and when a colour was displayed
\* between two publishes of one image URL.
C35_ChangedUrlIsDisplayed ==
    (settingsCallbacks # << >> /\ bg.tasks = << >>) =>
        \A settingsJson \in BgSettingsJsonInputs :
            LET image == SettingsPayloads[settingsJson.payload].BackgroundImage
                u == updateSettings(State, settingsJson)
            IN  (image.URL # "" /\ image.URL # bg.background.image) =>
                    \A o \in Outcomes(u, "undefined") :
                        o.background.image = image.URL

\* The same for the publishes that name a colour or bring filter values other
\* than those processed last; a publish of an image with the filter values
\* processed last leaves the background that was displayed.
C35_ChangedUrlIsDisplayedWhenFiltersDiffer ==
    (settingsCallbacks # << >> /\ bg.tasks = << >>) =>
        \A settingsJson \in BgSettingsJsonInputs :
            LET image == SettingsPayloads[settingsJson.payload].BackgroundImage
                u == updateSettings(State, settingsJson)
            IN  (image.URL # "" /\ image.URL # bg.background.image) =>
                    \A o \in Outcomes(u, "undefined") :
                        IF IsColor(image.URL) \/ image.Filters # bg.lastBGSettings
                        THEN o.background = IF IsColor(image.URL)
                                            THEN SceneColor(image.URL)
                                            ELSE Texture(image.URL, image.Filters)
                        ELSE o.background = bg.background

\* ------------------------------------------------------------ frozen time
\* C36: in the variant that freezes simulated time while Animate is false, a
\* frame with Animate true advances simulated time by at most the real time
\* since the frame callback before it, times the time scale, so the real time
\* spent with animation disabled is never added to simulated time.
C36_PausedTimeIsNotAdded ==
    (pendingFrames > 0 /\ CurrentSettings.Animate /\ simTime # Undefined) =>
        \A actualTime \in clock..MaxOrbitTime :
            LET f == FrameCallbackFrozen(State, actualTime)
            IN  Abs(f.simTime[1] - simTime[1])
                   <= (actualTime - clock) * Abs(SpeedScaleFrozen(CurrentSettings))

\* What a frame with Animate true adds: the real time since the last frame
\* that ran with Animate true, times the time scale; a frame with Animate
\* false changes neither the times nor the orbiters.
C36_TimeSinceLastAnimatedFrameIsAdded ==
    pendingFrames > 0 =>
        \A actualTime \in clock..MaxOrbitTime :
            LET f == FrameCallbackFrozen(State, actualTime)
            IN  IF CurrentSettings.Animate
                THEN /\ f.lastActualTime = << actualTime >>
                     /\ simTime # Undefined =>
                           f.simTime[1] - simTime[1] =
                              (actualTime - lastActualTime[1])
                                 * SpeedScaleFrozen(CurrentSettings)
                ELSE /\ f.simTime = simTime
                     /\ f.lastActualTime = lastActualTime
                     /\ f.orbiters = orbiters

\* ------------------------------------------------------------ first frame
\* The systems rendered for the first frame: those of the animation runs and
\* one whose planet starts just before angle 0.
FirstFrameSystems == SystemJson(TreeNames \cup {"TwoBodyBehind"})

\* The angles of the orbiters are the initial angles of their bodies, brought
\* into [0, 360).
AtBuildAngles(m) ==
    \A i \in 1..Len(m.orbiters) :
        LET initialAngle ==
                Tree(m.solarSystem.tree)[m.orbiters[i].node].InitialOrbitalAngle
        IN  /\ m.orbiters[i].currentAngle = initialAngle % FullCircle
            /\ 0 <= m.orbiters[i].currentAngle
            /\ m.orbiters[i].currentAngle < FullCircle

\* C37: the first frame after a render applies no simulated time, whatever
\* the real delay and the time scale: after it every orbiter still has the
\* angle set at build time, its initial angle normalised into [0, 360), and
\* simTime is 0.
C37_FirstFrameKeepsBuildAngles ==
    \A solarSystemJson \in FirstFrameSystems,
       settingsJson \in OrbitSettingsJsonInputs :
        LET r == render(State, solarSystemJson, settingsJson)
        IN  \A actualTime \in OrbitFrameTimes :
                LET f == FrameCallback(r, actualTime, "none")
                IN  /\ ~r.exc /\ ~f.exc
                    /\ f.simTime = << 0 >>
                    /\ f.orbiters = r.orbiters
                    /\ AtBuildAngles(f)

\* The same for the systems whose build angles are in range; in general the
\* first frame adds no time and normalises the build angles once more.
C37_FirstFrameAddsNoTime ==
    \A solarSystemJson \in FirstFrameSystems,
       settingsJson \in OrbitSettingsJsonInputs :
        LET r == render(State, solarSystemJson, settingsJson)
        IN  \A actualTime \in OrbitFrameTimes :
                LET f == FrameCallback(r, actualTime, "none")
                IN  /\ ~r.exc /\ ~f.exc
                    /\ f.simTime = << 0 >>
                    /\ f.lastActualTime = << actualTime >>
                    /\ f.orbiters = [i \in 1..Len(r.orbiters) |->
                                        updatePosition(r.orbiters[i], 0)]
                    /\ solarSystemJson.tree \in TreeNames =>
                          /\ f.orbiters = r.orbiters
                          /\ AtBuildAngles(f)
                    /\ solarSystemJson.tree = "TwoBodyBehind" =>
                          /\ r.orbiters[1].currentAngle = FullCircle
                          /\ f.orbiters[1].currentAngle = 0

\* ------------------------------------------------------------ image cache
\* The cached image is the one fetched from the cached URL; neither is set
\* before the first fetch has completed.
CacheConsistent(m) == m.bg.cachedBGImage = m.bg.lastBGUrl

\* CacheConsistent in every state of every interleaving of the publishes
\* still to come with the completions and failures of the suspended work.
RECURSIVE CacheAlwaysConsistent(_, _)
CacheAlwaysConsistent(m, publishes) ==
    /\ CacheConsistent(m)
    /\ publishes # << >> =>
          CacheAlwaysConsistent(updateSettings(m, Head(publishes)), Tail(publishes))
    /\ \A k \in 1..Len(m.bg.tasks) :
          /\ CacheAlwaysConsistent(ResumeBackground(m, k), publishes)
          /\ m.bg.tasks[k].stage = "read" =>
                CacheAlwaysConsistent(FailBackground(m, k), publishes)

\* C38: under every interleaving of publishes and fetch completions the
\* cached image and the cached URL are consistent: whenever lastBGUrl is set,
\* cachedBGImage is the image fetched from that URL.
C38_CacheMatchesUrl ==
    /\ CacheConsistent(State)
    /\ (settingsCallbacks # << >> /\ bg.tasks = << >>) =>
          \A pq \in ImagePairs : CacheAlwaysConsistent(State, << pq[1], pq[2] >>)

\* A second image has been fetched and cached while the first is displayed.
C38_Witness ==
    /\ bg.lastBGUrl = "b.jpg"
    /\ bg.cachedBGImage = "b.jpg"
    /\ bg.background.image = "a.jpg"
    /\ bg.tasks = << >>

\* ------------------------------------------------------------ two renderers
\* C39: with two renderers in the page, a render or updateSettings of one
\* invokes only reactions registered by that renderer's own latest render,
\* never removes or invokes reactions of the other, and the frame loop of each
\* reads the settings last published for that renderer.
C39_RenderersAreIsolated ==
    \A i \in Renderers :
        /\ \A settingsJson \in PageSettingsJsonInputs :
              LET r == PageRender(page, i, settingsJson)
                  u == PageUpdateSettings(page, i, settingsJson)
              IN  /\ \A k \in 1..Len(r.invoked) : r.invoked[k].owner = i
                  /\ \A k \in 1..Len(r.cleared) : r.cleared[k].owner = i
                  /\ \A k \in 1..Len(u.invoked) : u.invoked[k].owner = i
                  /\ \A j \in Renderers \ {i} :
                        /\ r.renderers[j] = page.renderers[j]
                        /\ u.renderers[j] = page.renderers[j]
        /\ PageFrame(page, i).renderers[i].frame = page.renderers[i].published

\* What the one SettingsManager does: a render removes every reaction and
\* leaves its own; a publish by either renderer invokes the reactions of the
\* renderer that rendered last; a frame reads the snapshot published last by
\* either renderer.
C39_RenderersShareOneBus ==
    \A i \in Renderers :
        /\ \A settingsJson \in PageSettingsJsonInputs :
              LET r == PageRender(page, i, settingsJson)
                  u == PageUpdateSettings(page, i, settingsJson)
                  newSettings == SSGSettings(SettingsPayloads[settingsJson.payload])
              IN  /\ r.cleared = page.settingsCallbacks
                  /\ r.settingsCallbacks = << [owner |-> i, kind |-> "scene"],
                                              [owner |-> i, kind |-> "zoom"] >>
                  /\ u.invoked = page.settingsCallbacks
                  /\ u.CurrentSettings = newSettings
                  /\ u.renderers[i].published = newSettings
                  /\ \A j \in Renderers :
                        u.renderers[j].scene =
                           IF \E k \in 1..Len(page.settingsCallbacks) :
                                 page.settingsCallbacks[k].owner = j
                           THEN newSettings ELSE page.renderers[j].scene
        /\ PageFrame(page, i).renderers[i].frame = page.CurrentSettings
        /\ \A k \in 1..Len(page.settingsCallbacks) :
              page.settingsCallbacks[k].owner = page.settingsCallbacks[1].owner

====
